---------------------------- MODULE Spec2Model ----------------------------
(***************************************************************************)
(* A state-machine model of the Game Boy emulator core (emulator-core):    *)
(* the CPU stepper, the bus with its interrupt fabric and VRAM DMA, the    *)
(* hardware timer, the PPU's timing, the joypad and the cartridge's bank   *)
(* controllers.  Every struct of the source is a record-valued variable whose    *)
(* fields keep the source's names; every method is an operator from the    *)
(* struct (or the whole system) to its successor.                          *)
(***************************************************************************)
EXTENDS Integers, Sequences, FiniteSets, TLC

VARIABLES
    cpu,      \* Cpu: af, bc, de, hl, sp, pc, halted, stopped, m_cycles_completed
    bus,      \* Bus: interrupt_enable, interrupt_flag, interrupt_master_enable, ...
    timer,    \* Timer: timer_counter, timer_counter_reload_delay, timer_modulo, ...
    joypad,   \* Joypad: pressed buttons, interrupt_waiting
    ppu,      \* Ppu: lcd_control, stat, dot, lcd_y, lcd_y_compare, latched interrupts
    obs,      \* what the host observes of the last call (return value, trace)
    tobs,     \* bookkeeping of the timer specifications (step counts, windows)
    pobs,     \* bookkeeping of the PPU specifications
    cartridge, \* Cartridge: the variant, its bank registers and bank counts
    dobs      \* bookkeeping of the other specifications, with the structs only they carry

vars == <<cpu, bus, timer, joypad, ppu, obs, tobs, pobs, cartridge, dobs>>

---------------------------------------------------------------------------
(* Fixed-width integer helpers.                                            *)

\* 1 << k
Pow2(k) == 2 ^ k

\* (x & (1 << k)) != 0, as 0 or 1
Bit(x, k) == (x \div Pow2(k)) % 2

\* x & y on bytes
BitAnd(x, y) ==
    Bit(x, 0) * Bit(y, 0) + 2 * Bit(x, 1) * Bit(y, 1) + 4 * Bit(x, 2) * Bit(y, 2)
    + 8 * Bit(x, 3) * Bit(y, 3) + 16 * Bit(x, 4) * Bit(y, 4)
    + 32 * Bit(x, 5) * Bit(y, 5) + 64 * Bit(x, 6) * Bit(y, 6)
    + 128 * Bit(x, 7) * Bit(y, 7)

\* x | y on bytes
BitOr(x, y) == x + y - BitAnd(x, y)

\* x with bit k set / cleared
SetBit(x, k) == IF Bit(x, k) = 1 THEN x ELSE x + Pow2(k)
ClearBit(x, k) == IF Bit(x, k) = 1 THEN x - Pow2(k) ELSE x

\* let r = ...; K(r) and let (value, s) = ...; K(value, s): the intermediate
\* result of a call is computed, named once and used by what follows it.
With(r, K(_)) == CHOOSE w \in {K(v) : v \in {r}} : TRUE

Bind(r, K(_, _)) == CHOOSE w \in {K(v[1], v[2]) : v \in {r}} : TRUE

\* The same where what follows is an action.
Then(r, A(_)) == A(r)

ThenBoth(r, A(_, _)) == A(r[1], r[2])

---------------------------------------------------------------------------
(* Timer (emulator-core/src/timer.rs).                                     *)

TIMER_COUNTER_RELOAD_DELAY == 4

TimerDefault ==
    [timer_counter |-> 0, timer_counter_reload_delay |-> 0, timer_modulo |-> 0,
     timer_control |-> 0, tick_counter |-> 0, interrupt_waiting |-> FALSE]

GetTimerEnable(t) == Bit(t.timer_control, 2) = 1

\* The tick-counter bit the multiplexer selects: 3, 5, 7, 9 for the control's
\* low two bits 01, 10, 11, 00.
GetInputClockSelect(t) ==
    CASE t.timer_control % 4 = 1 -> 3
      [] t.timer_control % 4 = 2 -> 5
      [] t.timer_control % 4 = 3 -> 7
      [] t.timer_control % 4 = 0 -> 9

InputClockSelectMask_SwappedBits(t) ==
    IF GetTimerEnable(t)
    THEN Pow2(CASE t.timer_control % 4 = 1 -> 5
                [] t.timer_control % 4 = 2 -> 3
                [] t.timer_control % 4 = 3 -> 9
                [] t.timer_control % 4 = 0 -> 7)
    ELSE 0

\* input_clock_select_mask: 1 << bit when the timer is enabled, else 0.
InputClockSelectMask(t) ==
    IF GetTimerEnable(t) THEN Pow2(GetInputClockSelect(t)) ELSE 0

\* (tick_counter & mask) != 0 for a mask that is 0 or one bit
TimerIncrementBit(tick, mask) == mask # 0 /\ (tick \div mask) % 2 = 1

TimerReload_NoInterrupt(t) ==
    IF t.timer_counter_reload_delay > 0
    THEN LET d == t.timer_counter_reload_delay - 1 IN
         IF d = 0 /\ t.timer_counter = 0
         THEN [t EXCEPT !.timer_counter_reload_delay = d,
                        !.timer_counter = t.timer_modulo]
         ELSE [t EXCEPT !.timer_counter_reload_delay = d]
    ELSE t

\* First half of step: the pending reload delay counts down; when it expires
\* with the counter still 0 the counter is reloaded and the interrupt latched.
TimerReload(t) ==
    IF t.timer_counter_reload_delay > 0
    THEN LET d == t.timer_counter_reload_delay - 1 IN
         IF d = 0 /\ t.timer_counter = 0
         THEN [t EXCEPT !.timer_counter_reload_delay = d,
                        !.timer_counter = t.timer_modulo,
                        !.interrupt_waiting = TRUE]
         ELSE [t EXCEPT !.timer_counter_reload_delay = d]
    ELSE t

\* Second half of step: the tick counter increments; a falling edge of the
\* selected bit increments the counter, and an overflow arms the delay.
TimerTick(t) ==
    LET mask == InputClockSelectMask(t)
        old  == TimerIncrementBit(t.tick_counter, mask)
        tick == (t.tick_counter + 1) % 65536
        new  == TimerIncrementBit(tick, mask)
        t1   == [t EXCEPT !.tick_counter = tick]
    IN  IF old /\ ~new
        THEN [t1 EXCEPT !.timer_counter = (t.timer_counter + 1) % 256,
                        !.timer_counter_reload_delay =
                            IF t.timer_counter = 255
                            THEN TIMER_COUNTER_RELOAD_DELAY ELSE @]
        ELSE t1

\* Timer::step
TimerStep(t) == TimerTick(TimerReload(t))

\* Timer::set_divider_register: the tick counter is zeroed; a falling edge of
\* the selected bit increments the counter, an overflow reloads at once.
SetDividerRegister(t, value) ==
    LET mask == InputClockSelectMask(t)
        old  == TimerIncrementBit(t.tick_counter, mask)
        new  == TimerIncrementBit(0, mask)
        t1   == [t EXCEPT !.tick_counter = 0]
    IN  IF old /\ ~new
        THEN IF t.timer_counter = 255
             THEN [t1 EXCEPT !.timer_counter = t.timer_modulo,
                             !.interrupt_waiting = TRUE]
             ELSE [t1 EXCEPT !.timer_counter = t.timer_counter + 1]
        ELSE t1

\* Timer::get_divider_register: the high byte of the tick counter
GetDividerRegister(t) == t.tick_counter \div 256

\* Timer::set_timer_counter
SetTimerCounter(t, value) == [t EXCEPT !.timer_counter = value]

\* Timer::set_timer_modulo
SetTimerModulo(t, value) == [t EXCEPT !.timer_modulo = value]

\* Timer::set_timer_control: the falling edge is evaluated between the old
\* selection and the new one on the unchanged tick counter.
SetTimerControl(t, value) ==
    LET old == TimerIncrementBit(t.tick_counter, InputClockSelectMask(t))
        t1  == [t EXCEPT !.timer_control = value]
        new == TimerIncrementBit(t.tick_counter, InputClockSelectMask(t1))
    IN  IF old /\ ~new
        THEN IF t.timer_counter = 255
             THEN [t1 EXCEPT !.timer_counter = t.timer_modulo,
                             !.interrupt_waiting = TRUE]
             ELSE [t1 EXCEPT !.timer_counter = t.timer_counter + 1]
        ELSE t1

\* Timer::poll_interrupt: <<latched, timer with the latch cleared>>
TimerPollInterrupt(t) == <<t.interrupt_waiting, [t EXCEPT !.interrupt_waiting = FALSE]>>


---------------------------------------------------------------------------
(* State after construction (Cpu::new, Bus::new, Default for the rest).    *)

HighRamAddrs == 0 .. 126

\* The offsets of work RAM bank 0 and of VRAM tile data whose bytes a state
\* carries: none unless a specification's initial state installs a window.
NoBytes == [a \in {} |-> 0]

CpuDefault ==
    [af |-> 0, bc |-> 0, de |-> 0, hl |-> 0, sp |-> 0, pc |-> 0,
     halted |-> FALSE, stopped |-> FALSE, m_cycles_completed |-> 0]

\* Channel1, Channel2, Channel3, Channel4 and Apu as #[derive(Default)] builds
\* them. The fields that only shape the waveform (duty and wave timers and
\* indices, the wave table, the noise register and its divider) feed into
\* none of the fields kept here and are left out.
Channel1Default ==
    [envelope_ticks_left |-> 0, sweep_ticks_left |-> 0, length_counter |-> 0, clock |-> 0,
     current_envelope_volume |-> 0, sweep |-> 0, sound_length_wave_duty |-> 0,
     volume_envelope |-> 0, frequency_low |-> 0, frequency_high |-> 0,
     frequency_shadow |-> 0, frame_sequencer_idx |-> 0, enabled |-> FALSE,
     frequency_sweep_enabled |-> FALSE,
     sweep_calculation_made_with_negate_mode |-> FALSE]

Channel2Default ==
    [envelope_ticks_left |-> 0, length_counter |-> 0, clock |-> 0,
     current_envelope_volume |-> 0, sound_length_wave_duty |-> 0,
     volume_envelope |-> 0, frequency_low |-> 0, frequency_high |-> 0,
     frame_sequencer_idx |-> 0, enabled |-> FALSE]

Channel3Default ==
    [sound_on_off |-> 0, sound_length |-> 0, length_counter |-> 0, output_level |-> 0,
     frequency_low |-> 0, frequency_high |-> 0, clock |-> 0,
     frame_sequencer_idx |-> 0, enabled |-> FALSE]

Channel4Default ==
    [sound_length |-> 0, length_counter |-> 0, envelope_ticks_left |-> 0,
     volume_envelope |-> 0, current_envelope_volume |-> 0, counter_consecutive |-> 0,
     frame_sequencer_idx |-> 0, clock |-> 0, enabled |-> FALSE]

ApuDefault ==
    [channel_1 |-> Channel1Default, channel_2 |-> Channel2Default,
     channel_3 |-> Channel3Default, channel_4 |-> Channel4Default,
     channel_control |-> 0, output_terminal_selection |-> 0, all_sound_on |-> FALSE]

BusDefault ==
    [interrupt_enable |-> 0, interrupt_flag |-> 0, interrupt_master_enable |-> FALSE,
     high_ram |-> [a \in HighRamAddrs |-> 0], boot_rom_enabled |-> TRUE,
     wram_banks |-> [bank \in 0 .. 7 |-> NoBytes], wram_bank_index |-> 1,
     dma_source |-> 0, dma_destination |-> 0,
     prepare_speed_switch |-> FALSE, current_speed |-> "Normal",
     hblank_dma_blocks_left |-> 0, hblank_dma_ongoing |-> FALSE,
     apu |-> ApuDefault]

JoypadDefault ==
    [action_buttons_selected |-> FALSE, direction_buttons_selected |-> FALSE,
     down_pressed |-> FALSE, up_pressed |-> FALSE, left_pressed |-> FALSE,
     right_pressed |-> FALSE, start_pressed |-> FALSE, select_pressed |-> FALSE,
     b_pressed |-> FALSE, a_pressed |-> FALSE, interrupt_waiting |-> FALSE]

PpuDefault ==
    [vblank_interrupt_waiting |-> FALSE, stat_interrupt_waiting |-> FALSE,
     dot |-> 0, lcd_y |-> 0, lcd_y_compare |-> 0, stat |-> 0, lcd_control |-> 0,
     tile_data |-> NoBytes, object_attributes |-> <<>>, scanline_seen_sprites |-> {},
     back_buffer |-> NoBytes, front_buffer |-> NoBytes]

\* The part of the state a call began in that the observations refer to.
PreNone ==
    [af |-> 0, sp |-> 0, pc |-> 0, halted |-> FALSE, stopped |-> FALSE,
     interrupt_enable |-> 0, interrupt_flag |-> 0, interrupt_master_enable |-> FALSE,
     latched |-> {}, prepare_speed_switch |-> FALSE, current_speed |-> "Normal",
     stack |-> <<0, 0>>, halt_at |-> -1]

\* Nothing observed yet: the kind of the last call, the opcode it fetched and
\* where, the M-cycles it counted, the value it returned, the PPU/APU steps the
\* bus made, the bus writes <<address, value, M-cycle>>, and what the poll saw.
ObsNone ==
    [kind |-> "none", opcode |-> -1, fetch_at |-> -1, m_cycles |-> 0, ret |-> 0,
     ppu_steps |-> 0, writes |-> <<>>, modelled |-> TRUE, poll_if |-> 0,
     poll_result |-> -1, steps |-> 0, presses |-> 0, halt_at |-> -1,
     woke |-> FALSE, prev_woke |-> FALSE, pre |-> PreNone]

TObsNone ==
    [n |-> 0, writes |-> 0, last |-> "init", since |-> -1, dirty |-> FALSE,
     wovf |-> FALSE, wval |-> 0, irqs_since |-> 0, tima0 |-> 0,
     before |-> TimerDefault, written |-> 0]

\* Nothing observed yet of the PPU: the steps taken, the steps since the LCD
\* was switched on, the CPU stores, the kind of the last action, the PPU before
\* it, the pulses it latched, and the V-blank pulses counted.
PObsNone ==
    [k |-> 0, n |-> 0, writes |-> 0, last |-> "init", before |-> PpuDefault,
     stat_pulse |-> FALSE, vblank_pulse |-> FALSE, vblanks |-> 0]

\* The ROM image: byte offset of 16 KiB bank number bank.  Distinct banks
\* differ at every offset.
RomByte(bank, offset) == (bank + 131 * offset) % 256

\* NoMbc::new, Mbc1::new, Mbc3::new: the first switchable bank selected, RAM
\* disabled, simple ROM banking.  Of every RAM bank the byte at offset 0 is
\* carried: zero, except that Mbc3::new cuts its RAM banks out of the ROM data
\* in chunks of 0x2000 bytes (two to a ROM bank).  background_secs counts
\* quarters of a second, which the f64 of Mbc3 holds exactly.
NewCartridge(type, rom_banks, ram_banks) ==
    [cartridge_type |-> type, rom_banks |-> rom_banks, ram_banks |-> ram_banks,
     ram |-> [b \in 0 .. ram_banks - 1 |->
                 IF type = "Mbc3" THEN RomByte(b \div 2, (b % 2) * 8192) ELSE 0],
     bank_1 |-> 1, bank_2 |-> 0, ram_enabled |-> FALSE, simple_rom_banking |-> TRUE,
     rom_bank |-> 1, ram_bank |-> 0, rtc |-> [r \in 8 .. 12 |-> 0],
     latch_state |-> "Unlatched", background_secs |-> 0]

CartridgeDefault == NewCartridge("Mbc1", 2, 0)

\* Nothing observed yet of the DMA engine: the M-cycles stepped, the stores to
\* HDMA5, the kind of the last action, the bus and the tile data before it,
\* the value stored, whether the M-cycle entered H-blank, and the length field
\* and H-blank entries of the transfer in progress.
DObsNone ==
    [k |-> 0, writes |-> 0, last |-> "init", before |-> BusDefault,
     vram_before |-> NoBytes, written |-> 0, hblank_entered |-> FALSE,
     length |-> -1, entries |-> 0]
---------------------------------------------------------------------------
(* Ppu (emulator-core/src/ppu.rs): the timing skeleton, the STAT register, *)
(* the two latched interrupts, the sprites of a line and the two pixel     *)
(* buffers.  The state carries the sprites object_attributes[1..n] (OAM    *)
(* entries 0..n-1; the others are the zeroed entries of Ppu::default,      *)
(* which cover no line) and the pixels <<y, x>> in the domain of the       *)
(* buffers.  The tile maps, tile data and palettes are as Ppu::default     *)
(* builds them, so the background pixel has palette index 0 and the        *)
(* default colour 0; the window is off.  A sprite carries the palette      *)
(* index and the colour that its tile and palette give at every pixel.     *)

GetLcdPpuEnable(p) == Bit(p.lcd_control, 7) = 1

\* Ppu::get_stat_mode: the low two bits of STAT
GetStatMode(p) ==
    CASE p.stat % 4 = 0 -> "HBlank"
      [] p.stat % 4 = 1 -> "VBlank"
      [] p.stat % 4 = 2 -> "OAMSearch"
      [] p.stat % 4 = 3 -> "PixelTransfer"

StatModeMask(mode) ==
    CASE mode = "HBlank" -> 0
      [] mode = "VBlank" -> 1
      [] mode = "OAMSearch" -> 2
      [] mode = "PixelTransfer" -> 3

\* Ppu::stat_interrupt_source_enabled
StatInterruptSourceEnabled(p, source_type) ==
    CASE source_type = "LycEqualsLy" -> Bit(p.stat, 6) = 1
      [] source_type = "OAMSearch" -> Bit(p.stat, 5) = 1
      [] source_type = "VBlank" -> Bit(p.stat, 4) = 1
      [] source_type = "HBlank" -> Bit(p.stat, 3) = 1

\* The match on the mode shared by get_stat_interrupt_line and set_stat_mode.
ModeInterruptLine(p, mode) ==
    IF mode = "PixelTransfer" THEN FALSE ELSE StatInterruptSourceEnabled(p, mode)

GetStatLycEqualsLy(p) == Bit(p.stat, 2) = 1

GetStatInterruptLine(p) ==
    \/ StatInterruptSourceEnabled(p, "LycEqualsLy") /\ GetStatLycEqualsLy(p)
    \/ ModeInterruptLine(p, GetStatMode(p))

SetStatMode(p, mode) ==
    LET old_interrupt_line == GetStatInterruptLine(p)
        line_high == ModeInterruptLine(p, mode)
        p1 == IF ~old_interrupt_line /\ line_high
              THEN [p EXCEPT !.stat_interrupt_waiting = TRUE] ELSE p
    IN  [p1 EXCEPT !.stat = (@ - (@ % 4)) + StatModeMask(mode)]

SetStatLycEqualsLy(p, equals) ==
    IF equals
    THEN LET old_interrupt_line == GetStatInterruptLine(p)
             line_high == StatInterruptSourceEnabled(p, "LycEqualsLy")
             p1 == IF ~old_interrupt_line /\ line_high
                   THEN [p EXCEPT !.stat_interrupt_waiting = TRUE] ELSE p
         IN  [p1 EXCEPT !.stat = SetBit(@, 2)]
    ELSE [p EXCEPT !.stat = ClearBit(@, 2)]

\* Ppu::get_obj_size, get_obj_enable, get_bg_window_enable_priority
GetObjSize(p) == IF Bit(p.lcd_control, 2) = 0 THEN "EightByEight" ELSE "EightBySixteen"
GetObjEnable(p) == Bit(p.lcd_control, 1) = 1
GetBgWindowEnablePriority(p) == Bit(p.lcd_control, 0) = 1

\* The vertical test that the OAM search of Ppu::step and get_sprite_pixel
\* share: the sprite's rows cover the line.
SpriteCoversLine(p, attribute_info, line) ==
    IF GetObjSize(p) = "EightByEight"
    THEN line + 16 >= attribute_info.y_position /\ line + 8 < attribute_info.y_position
    ELSE line + 16 >= attribute_info.y_position /\ line < attribute_info.y_position

\* the first count members of a set of OAM indices (Iterator::take)
RECURSIVE Take(_, _)
Take(indices, count) ==
    IF count = 0 \/ indices = {} THEN {}
    ELSE LET first == CHOOSE i \in indices : \A j \in indices : i <= j
         IN  {first} \cup Take(indices \ {first}, count - 1)

\* Ppu::step at dot 80: the OAM indices of the first ten sprites covering the line
ScanlineSprites(p) ==
    Take({i - 1 : i \in {j \in DOMAIN p.object_attributes :
                        SpriteCoversLine(p, p.object_attributes[j], p.lcd_y)}}, 10)

\* Ppu::get_background_pixel on the tile maps and palettes of Ppu::default
GetBackgroundPixel(p, pixel_x, pixel_y) ==
    [color |-> 0, palette_idx |-> 0, priority_over_sprite |-> FALSE]

\* Ppu::get_sprite_pixel: the sprites whose tile shows at the pixel, in the
\* order of object_attributes
SpritesAtPixel(p, pixel_x, pixel_y) ==
    {i \in DOMAIN p.object_attributes :
        /\ SpriteCoversLine(p, p.object_attributes[i], pixel_y)
        /\ pixel_x + 8 >= p.object_attributes[i].x_position
        /\ pixel_x < p.object_attributes[i].x_position
        /\ p.object_attributes[i].palette_idx # 0}

\* Ppu::get_sprite_pixel: Some of the first of them, or None
GetSpritePixel(p, pixel_x, pixel_y) ==
    IF ~GetObjEnable(p) \/ SpritesAtPixel(p, pixel_x, pixel_y) = {}
    THEN [some |-> FALSE, color |-> 0, palette_idx |-> 0, priority_under_bg |-> FALSE]
    ELSE With(p.object_attributes[CHOOSE i \in SpritesAtPixel(p, pixel_x, pixel_y) :
                  \A j \in SpritesAtPixel(p, pixel_x, pixel_y) : i <= j],
              LAMBDA sprite_attribute_info :
                  [some |-> TRUE, color |-> sprite_attribute_info.color,
                   palette_idx |-> sprite_attribute_info.palette_idx,
                   priority_under_bg |-> sprite_attribute_info.priority_under_bg])

\* Ppu::step, sprite_drawn
SpriteDrawn(p, background_pixel_info, sprite_pixel_info) ==
    IF GetBgWindowEnablePriority(p)
    THEN ~(\/ background_pixel_info.priority_over_sprite
              /\ background_pixel_info.palette_idx # 0
           \/ sprite_pixel_info.priority_under_bg
              /\ background_pixel_info.palette_idx # 0)
    ELSE TRUE

\* Ppu::step, the colour stored in the back buffer at a pixel
PixelColor(p, pixel_x, pixel_y) ==
    IF ~GetSpritePixel(p, pixel_x, pixel_y).some THEN
        GetBackgroundPixel(p, pixel_x, pixel_y).color
    ELSE IF SpriteDrawn(p, GetBackgroundPixel(p, pixel_x, pixel_y),
                        GetSpritePixel(p, pixel_x, pixel_y))
         THEN GetSpritePixel(p, pixel_x, pixel_y).color
         ELSE GetBackgroundPixel(p, pixel_x, pixel_y).color

\* Ppu::step, the pixel of the dot in pixel transfer
PpuStepPixel(p) ==
    IF /\ p.back_buffer # NoBytes
       /\ GetStatMode(p) = "PixelTransfer" /\ p.dot - 80 < 160
       /\ <<p.lcd_y, p.dot - 80>> \in DOMAIN p.back_buffer
    THEN [p EXCEPT !.back_buffer[<<p.lcd_y, p.dot - 80>>] =
                       PixelColor(p, p.dot - 80, p.lcd_y)]
    ELSE p

PpuStepMode_NoVblankLatch(p) ==
    LET mode == CASE p.lcd_y < 144 /\ p.dot = 0 -> "OAMSearch"
                  [] p.lcd_y < 144 /\ p.dot = 80 -> "PixelTransfer"
                  [] p.lcd_y < 144 /\ p.dot = 252 -> "HBlank"
                  [] p.lcd_y = 144 /\ p.dot = 0 -> "VBlank"
                  [] OTHER -> "Unchanged"
    IN  IF mode = "Unchanged" THEN p ELSE SetStatMode(p, mode)

\* The mode transitions of Ppu::step at the current dot and line: lines 0-143
\* enter OAM search at dot 0, pixel transfer at dot 80 and H-blank at dot 252;
\* line 144 enters V-blank at dot 0 and latches the V-blank interrupt.
PpuStepMode(p) ==
    LET mode == CASE p.lcd_y < 144 /\ p.dot = 0 -> "OAMSearch"
                  [] p.lcd_y < 144 /\ p.dot = 80 -> "PixelTransfer"
                  [] p.lcd_y < 144 /\ p.dot = 252 -> "HBlank"
                  [] p.lcd_y = 144 /\ p.dot = 0 -> "VBlank"
                  [] OTHER -> "Unchanged"
    IN  IF mode = "Unchanged" THEN p
        ELSE [SetStatMode(p, mode) EXCEPT
                 !.vblank_interrupt_waiting = @ \/ mode = "VBlank",
                 !.scanline_seen_sprites =
                     IF mode = "PixelTransfer" THEN ScanlineSprites(p) ELSE @]

PpuStepAdvance_LongLine(p) ==
    IF p.dot + 1 > 456
    THEN [p EXCEPT !.dot = 0, !.lcd_y = IF p.lcd_y + 1 > 153 THEN 0 ELSE p.lcd_y + 1]
    ELSE [p EXCEPT !.dot = p.dot + 1]

\* The dot and line counters of Ppu::step; the back buffer becomes the front
\* buffer at the end of line 153.
PpuStepAdvance(p) ==
    IF p.dot + 1 > 455
    THEN [p EXCEPT !.dot = 0, !.lcd_y = IF p.lcd_y + 1 > 153 THEN 0 ELSE p.lcd_y + 1,
                   !.front_buffer = IF p.lcd_y + 1 > 153 THEN p.back_buffer ELSE @]
    ELSE [p EXCEPT !.dot = p.dot + 1]

\* Ppu::step
PpuStep(p) ==
    IF ~GetLcdPpuEnable(p) THEN p
    ELSE PpuStepAdvance(PpuStepPixel(
             PpuStepMode(SetStatLycEqualsLy(p, p.lcd_y = p.lcd_y_compare))))

WriteStat_AllBits(p, data) ==
    LET old_interrupt_line == GetStatInterruptLine(p)
        p1 == [p EXCEPT !.stat = data]
        new_interrupt_line == GetStatInterruptLine(p1)
    IN  IF ~old_interrupt_line /\ new_interrupt_line
        THEN [p1 EXCEPT !.stat_interrupt_waiting = TRUE] ELSE p1

\* Ppu::write_stat: bits 3..6 are writable
WriteStat(p, data) ==
    LET old_interrupt_line == GetStatInterruptLine(p)
        p1 == [p EXCEPT !.stat = ((data \div 8) % 16) * 8 + (@ % 8) + 128 * Bit(@, 7)]
        new_interrupt_line == GetStatInterruptLine(p1)
    IN  IF ~old_interrupt_line /\ new_interrupt_line
        THEN [p1 EXCEPT !.stat_interrupt_waiting = TRUE] ELSE p1

WriteLcdControl_KeepsDot(p, data) == [p EXCEPT !.lcd_control = data]

\* Ppu::write_lcd_control: switching the LCD off clears stat, dot and lcd_y
WriteLcdControl(p, data) ==
    LET p1 == [p EXCEPT !.lcd_control = data]
    IN  IF ~GetLcdPpuEnable(p1)
        THEN [p1 EXCEPT !.stat = 0, !.dot = 0, !.lcd_y = 0] ELSE p1

WriteLcdYCompare(p, value) == [p EXCEPT !.lcd_y_compare = value]

\* Ppu::poll_vblank_interrupt, Ppu::poll_stat_interrupt: <<latched, ppu after>>
PollVblankInterrupt(p) ==
    <<p.vblank_interrupt_waiting, [p EXCEPT !.vblank_interrupt_waiting = FALSE]>>

PollStatInterrupt(p) ==
    <<p.stat_interrupt_waiting, [p EXCEPT !.stat_interrupt_waiting = FALSE]>>

---------------------------------------------------------------------------

(* The window of the PPU: the conditions on WX and WY that Ppu::step       *)
(* latches and the hidden line counter window_lcd_y, which counts the      *)
(* falling edges of get_window_displayed.  The records carry the fields    *)
(* of WindowDefault next to those of PpuDefault.                           *)

WindowDefault ==
    [window_x |-> 0, window_y |-> 0, window_lcd_y |-> 0,
     window_x_condition_triggered |-> FALSE, window_y_condition_triggered |-> FALSE]

\* Ppu::get_window_enable
GetWindowEnable(p) == Bit(p.lcd_control, 5) = 1

\* Ppu::get_window_displayed
GetWindowDisplayed(p) ==
    /\ p.window_x_condition_triggered
    /\ p.window_y_condition_triggered
    /\ GetWindowEnable(p)

\* "Window displayed falling edge increments hidden window lcd y": the u8
\* increment that follows the assignment leading from old to new.
WindowFallingEdge(old, new) ==
    IF GetWindowDisplayed(old) /\ ~GetWindowDisplayed(new)
    THEN [new EXCEPT !.window_lcd_y = (@ + 1) % 256] ELSE new

\* Ppu::step, the window conditions at dot 0 and dot 252 of the lines 0-143
\* and at dot 0 of line 144
WindowStepMode(p) ==
    CASE p.lcd_y < 144 /\ p.dot = 0 ->
            [p EXCEPT !.window_y_condition_triggered = @ \/ p.lcd_y = p.window_y]
      [] p.lcd_y < 144 /\ p.dot = 252 ->
            WindowFallingEdge(p, [p EXCEPT !.window_x_condition_triggered = FALSE])
      [] p.lcd_y = 144 /\ p.dot = 0 ->
            [p EXCEPT !.window_y_condition_triggered = FALSE]
      [] OTHER -> p

\* Ppu::step, the condition on WX at the pixel of the dot: "when window_x < 7,
\* trigger window x condition iff render_x == 0"
WindowStepPixel(p) ==
    IF GetStatMode(p) = "PixelTransfer" /\ p.dot - 80 < 160
    THEN [p EXCEPT !.window_x_condition_triggered =
                       @ \/ IF p.window_x >= 7 THEN p.dot - 80 + 7 = p.window_x
                                               ELSE p.dot - 80 = 0]
    ELSE p

\* Ppu::step, the end of line 153
WindowStepAdvance(p) ==
    IF p.dot + 1 > 455 /\ p.lcd_y + 1 > 153 THEN [p EXCEPT !.window_lcd_y = 0] ELSE p

\* Ppu::step of a PPU with its window
PpuStepWindow(p) ==
    IF ~GetLcdPpuEnable(p) THEN p
    ELSE PpuStepAdvance(WindowStepAdvance(PpuStepPixel(WindowStepPixel(
             WindowStepMode(PpuStepMode(
                 SetStatLycEqualsLy(p, p.lcd_y = p.lcd_y_compare)))))))

\* Ppu::write_lcd_control of a PPU with its window
WriteLcdControlWindow(p, data) == WindowFallingEdge(p, WriteLcdControl(p, data))

\* Ppu::write_window_y
WriteWindowY(p, value) ==
    WindowFallingEdge(p, [p EXCEPT !.window_y = value,
                                   !.window_y_condition_triggered = FALSE])

\* Ppu::write_window_x
WriteWindowX(p, value) ==
    WindowFallingEdge(p, [p EXCEPT !.window_x = value,
                                   !.window_x_condition_triggered = FALSE])
---------------------------------------------------------------------------

(* The CGB colour palettes of the PPU: two memories of eight palettes of   *)
(* four RGB-555 colours, each behind an index register (0xFF68, 0xFF6A)    *)
(* and a data register (0xFF69, 0xFF6B).  The records carry the fields of  *)
(* PaletteDefault next to those of PpuDefault.                             *)

\* PaletteColorRgb555::default()
PaletteColorDefault == [red |-> 0, green |-> 0, blue |-> 0]

PaletteDataDefault == [palette_idx \in 0 .. 7 |-> [color_idx \in 0 .. 3 |-> PaletteColorDefault]]

PaletteDefault ==
    [bg_color_palette_index |-> 0, bg_color_palette_data |-> PaletteDataDefault,
     obj_color_palette_index |-> 0, obj_color_palette_data |-> PaletteDataDefault]

\* get_*_color_palette_auto_increment, get_*_color_palette_address and
\* set_*_color_palette_address on the index register of either memory
GetColorPaletteAutoIncrement(index) == Bit(index, 7) = 1
GetColorPaletteAddress(index) == BitAnd(index, 63)
SetColorPaletteAddress(index, value) == BitOr(BitAnd(index, 192), BitAnd(value, 63))

\* The byte that read_*_palette_data makes of a colour: the low byte for an
\* even address, the high byte for an odd one (u8 shifts drop the bits
\* shifted out).
PaletteColorRead(color, address) ==
    IF address % 2 = 0
    THEN BitOr(color.red \div 8, (BitAnd(color.green, 7) * 32) % 256)
    ELSE BitOr(BitAnd(color.green, 56) \div 8, (color.blue * 8) % 256)

\* The colour that write_*_palette_data makes of a colour and a byte.
PaletteColorWrite(color, address, value) ==
    IF address % 2 = 0
    THEN [color EXCEPT !.red = BitAnd(value, 31),
                       !.green = BitOr(BitAnd(@, 248), BitAnd(value \div 32, 7))]
    ELSE [color EXCEPT !.green = BitOr(BitAnd(@, 231), BitAnd((value * 8) % 256, 24)),
                       !.blue = BitAnd(value \div 4, 31)]

\* Ppu::read_background_palette_data
ReadBackgroundPaletteData(p) ==
    LET address == GetColorPaletteAddress(p.bg_color_palette_index)
    IN  PaletteColorRead(
            p.bg_color_palette_data[(address \div 2) \div 4][(address \div 2) % 4], address)

\* Ppu::write_background_palette_data
WriteBackgroundPaletteData(p, value) ==
    LET address == GetColorPaletteAddress(p.bg_color_palette_index)
    IN  [p EXCEPT
            !.bg_color_palette_data[(address \div 2) \div 4][(address \div 2) % 4] =
                PaletteColorWrite(@, address, value),
            !.bg_color_palette_index =
                IF GetColorPaletteAutoIncrement(@)
                THEN SetColorPaletteAddress(@, address + 1) ELSE @]

\* Ppu::read_obj_palette_data
ReadObjPaletteData(p) ==
    LET address == GetColorPaletteAddress(p.obj_color_palette_index)
    IN  PaletteColorRead(
            p.obj_color_palette_data[(address \div 2) \div 4][(address \div 2) % 4], address)

\* Ppu::write_obj_palette_data
WriteObjPaletteData(p, value) ==
    LET address == GetColorPaletteAddress(p.obj_color_palette_index)
    IN  [p EXCEPT
            !.obj_color_palette_data[(address \div 2) \div 4][(address \div 2) % 4] =
                PaletteColorWrite(@, address, value),
            !.obj_color_palette_index =
                IF GetColorPaletteAutoIncrement(@)
                THEN SetColorPaletteAddress(@, address + 1) ELSE @]
---------------------------------------------------------------------------
(* Joypad (src/joypad.rs).                                                 *)

Buttons == {"A", "B", "Start", "Select", "Up", "Down", "Left", "Right"}

\* The field that the setter of a button assigns.
ButtonField(button) ==
    CASE button = "A" -> "a_pressed"
      [] button = "B" -> "b_pressed"
      [] button = "Start" -> "start_pressed"
      [] button = "Select" -> "select_pressed"
      [] button = "Up" -> "up_pressed"
      [] button = "Down" -> "down_pressed"
      [] button = "Left" -> "left_pressed"
      [] button = "Right" -> "right_pressed"

\* Joypad::set_a_pressed and its seven siblings
JoypadSetPressed(j, button, val) == [j EXCEPT ![ButtonField(button)] = val]

\* Joypad::poll_interrupt: <<latched, joypad after>>
JoypadPollInterrupt(j) ==
    <<j.interrupt_waiting, [j EXCEPT !.interrupt_waiting = FALSE]>>

\* Joypad::write: a 0 in bit 5 / bit 4 selects the action / direction buttons
JoypadWrite(j, data) ==
    [j EXCEPT !.action_buttons_selected = Bit(data, 5) = 0,
              !.direction_buttons_selected = Bit(data, 4) = 0]

\* One input line of Joypad::read: high unless a selected button holds it low.
JoypadInputHigh(j, action, direction) ==
    \/ j.action_buttons_selected /\ ~j[action]
    \/ j.direction_buttons_selected /\ ~j[direction]

JoypadRead(j) ==
    (IF j.action_buttons_selected THEN 0 ELSE 32)
    + (IF j.direction_buttons_selected THEN 0 ELSE 16)
    + (IF JoypadInputHigh(j, "start_pressed", "down_pressed") THEN 8 ELSE 0)
    + (IF JoypadInputHigh(j, "select_pressed", "up_pressed") THEN 4 ELSE 0)
    + (IF JoypadInputHigh(j, "b_pressed", "left_pressed") THEN 2 ELSE 0)
    + (IF JoypadInputHigh(j, "a_pressed", "right_pressed") THEN 1 ELSE 0)

---------------------------------------------------------------------------
(* The APU: apu.rs, apu/channel_1.rs, channel_2.rs, channel_3.rs and        *)
(* channel_4.rs. Each channel counts its own clock and keeps its own frame  *)
(* sequencer index.                                                         *)

\* CLOCK_FREQUENCY / SEQUENCER_CLOCK_FREQUENCY = 4194304 / 512
SEQUENCER_CLOCK_PERIOD == 8192

\* The tables of channel_1.rs and channel_3.rs, indexed from 0
Channel1_LENGTH_COUNTER_CLOCKS(idx) == idx \in {0, 2, 4, 6}
Channel3_LENGTH_COUNTER_CLOCKS(idx) == idx \in {0, 2, 4, 6}

\* The tables of channel_2.rs and channel_4.rs, indexed from 0
Channel2_LENGTH_COUNTER_CLOCKS(idx) == idx \in {2, 4, 6}
Channel4_LENGTH_COUNTER_CLOCKS(idx) == idx \in {2, 4, 6}

VOLUME_ENVELOPE_CLOCKS(idx) == idx = 7
SWEEP_CLOCKS(idx) == idx \in {2, 6}

\* u8::saturating_sub(1)
SaturatingDec(x) == IF x = 0 THEN 0 ELSE x - 1

\* get_initial_envelope_volume, get_envelope_increase, get_envelope_length
GetInitialEnvelopeVolume(c) == c.volume_envelope \div 16
GetEnvelopeIncrease(c) == Bit(c.volume_envelope, 3) = 1
GetEnvelopeLength(c) == c.volume_envelope % 8

\* get_channel_frequency
GetChannelFrequency(c) == 256 * (c.frequency_high % 8) + c.frequency_low

\* stop_when_length_expires of channels 1, 2, 3 (NRx4 bit 6)
StopWhenLengthExpires(c) == Bit(c.frequency_high, 6) = 1

\* the envelope ticks a reload gives
EnvelopeReload(c) == IF GetEnvelopeLength(c) = 0 THEN 8 ELSE GetEnvelopeLength(c)

\* (current_envelope_volume + 1).min(0xF) or saturating_sub(1)
EnvelopeMove(c) ==
    IF GetEnvelopeIncrease(c)
    THEN [c EXCEPT !.current_envelope_volume = IF @ + 1 > 15 THEN 15 ELSE @ + 1]
    ELSE [c EXCEPT !.current_envelope_volume = SaturatingDec(@)]

(* Channel 1 *)

GetSweepLength(c) == (c.sweep \div 16) % 8
GetSweepIncrease(c) == Bit(c.sweep, 3) = 0
GetSweepShift(c) == c.sweep % 8

\* Channel1::perform_frequency_calculation: the value and the channel after it
PerformFrequencyCalculation(c) ==
    IF GetSweepIncrease(c)
    THEN <<c.frequency_shadow + (c.frequency_shadow \div Pow2(GetSweepShift(c))), c>>
    ELSE <<c.frequency_shadow - (c.frequency_shadow \div Pow2(GetSweepShift(c))),
           [c EXCEPT !.sweep_calculation_made_with_negate_mode = TRUE]>>

\* Channel1::write_channel_frequency
WriteChannelFrequency(c, value) ==
    [c EXCEPT !.frequency_low = value % 256,
              !.frequency_high = ((value \div 256) % 8) + 8 * (@ \div 8)]

\* Channel1::set_enabled(true), from the sweep check on: the calculation is
\* made only when the shift is not 0.
Channel1TriggerSweep(c) ==
    IF GetSweepShift(c) # 0
    THEN Bind(PerformFrequencyCalculation(c),
              LAMBDA value, d : [d EXCEPT !.enabled = ~(value > 2047)])
    ELSE [c EXCEPT !.enabled = TRUE]

\* Channel1::set_enabled
Channel1SetEnabled(c, value) ==
    IF ~value THEN [c EXCEPT !.enabled = FALSE]
    ELSE With([c EXCEPT
                 !.length_counter =
                     IF @ # 0 THEN @
                     ELSE IF StopWhenLengthExpires(c)
                             /\ ~Channel1_LENGTH_COUNTER_CLOCKS(c.frame_sequencer_idx)
                          THEN 63 ELSE 64,
                 !.envelope_ticks_left = GetEnvelopeLength(c),
                 !.current_envelope_volume = GetInitialEnvelopeVolume(c),
                 !.frequency_shadow = GetChannelFrequency(c),
                 !.sweep_ticks_left =
                     IF GetSweepLength(c) = 0 THEN 8 ELSE GetSweepLength(c),
                 !.frequency_sweep_enabled =
                     GetSweepLength(c) # 0 \/ GetSweepShift(c) # 0,
                 !.sweep_calculation_made_with_negate_mode = FALSE],
              Channel1TriggerSweep)

\* Channel1::step, the envelope clock
Channel1StepEnvelope(c) ==
    IF ~VOLUME_ENVELOPE_CLOCKS(c.frame_sequencer_idx) THEN c
    ELSE IF SaturatingDec(c.envelope_ticks_left) # 0
         THEN [c EXCEPT !.envelope_ticks_left = SaturatingDec(@)]
         ELSE [(IF GetEnvelopeLength(c) # 0 THEN EnvelopeMove(c) ELSE c)
                  EXCEPT !.envelope_ticks_left = EnvelopeReload(c)]

\* Channel1::step, the frequency written back after a sweep calculation that
\* fits: the second calculation may still disable the channel.
Channel1SweepWriteBack(c, new_value) ==
    Bind(PerformFrequencyCalculation(
             [WriteChannelFrequency(c, new_value) EXCEPT !.frequency_shadow = new_value]),
         LAMBDA second_value, d :
             IF second_value > 2047 THEN Channel1SetEnabled(d, FALSE) ELSE d)

Channel1SweepCalculation_NoOverflowTest(c) ==
    IF ~(c.frequency_sweep_enabled /\ GetSweepLength(c) # 0) THEN c
    ELSE Bind(PerformFrequencyCalculation(c),
              LAMBDA new_value, d :
                  IF GetSweepShift(d) # 0 THEN Channel1SweepWriteBack(d, new_value)
                  ELSE d)

\* Channel1::step, the sweep calculation made when the sweep timer runs out
Channel1SweepCalculation(c) ==
    IF ~(c.frequency_sweep_enabled /\ GetSweepLength(c) # 0) THEN c
    ELSE Bind(PerformFrequencyCalculation(c),
              LAMBDA new_value, d :
                  IF new_value > 2047 THEN Channel1SetEnabled(d, FALSE)
                  ELSE IF GetSweepShift(d) # 0 THEN Channel1SweepWriteBack(d, new_value)
                  ELSE d)

\* Channel1::step, the sweep clock
Channel1StepSweep(c) ==
    IF ~SWEEP_CLOCKS(c.frame_sequencer_idx) THEN c
    ELSE IF SaturatingDec(c.sweep_ticks_left) # 0
         THEN [c EXCEPT !.sweep_ticks_left = SaturatingDec(@)]
         ELSE [Channel1SweepCalculation([c EXCEPT !.sweep_ticks_left = 0])
                  EXCEPT !.sweep_ticks_left =
                      IF GetSweepLength(c) = 0 THEN 8 ELSE GetSweepLength(c)]

\* Channel1::step, the length clock
Channel1StepLength(c) ==
    IF ~(StopWhenLengthExpires(c) /\ Channel1_LENGTH_COUNTER_CLOCKS(c.frame_sequencer_idx))
    THEN c
    ELSE [c EXCEPT !.length_counter = SaturatingDec(@),
                   !.enabled = IF c.length_counter = 1 THEN FALSE ELSE @]

\* Channel1::step, the frame sequencer tick
Channel1Tick(c) ==
    With(Channel1StepEnvelope(c), LAMBDA c1 :
    With(Channel1StepSweep(c1), LAMBDA c2 :
         [Channel1StepLength(c2) EXCEPT !.frame_sequencer_idx = (@ + 1) % 8]))

\* Channel1::step, after the tick: the DAC test and the clock
Channel1StepRest(c) ==
    [c EXCEPT !.enabled =
                  IF GetInitialEnvelopeVolume(c) = 0 /\ ~GetEnvelopeIncrease(c)
                  THEN FALSE ELSE @,
              !.clock = @ + 1]

\* Channel1::step
Channel1Step(c) ==
    Channel1StepRest(IF c.clock % SEQUENCER_CLOCK_PERIOD = 0 THEN Channel1Tick(c) ELSE c)

Channel1WriteSweep_AnyNegate(c, value) ==
    With([c EXCEPT !.sweep = value], LAMBDA d :
         IF GetSweepIncrease(d) /\ ~GetSweepIncrease(c)
         THEN Channel1SetEnabled(d, FALSE) ELSE d)

\* Channel1::write_sweep
Channel1WriteSweep(c, value) ==
    With([c EXCEPT !.sweep = value], LAMBDA d :
         IF d.sweep_calculation_made_with_negate_mode /\ GetSweepIncrease(d)
         THEN Channel1SetEnabled(d, FALSE) ELSE d)

\* write_sound_length_wave_duty of channels 1 and 2
WriteSoundLengthWaveDuty(c, value) ==
    [c EXCEPT !.sound_length_wave_duty = value, !.length_counter = 64 - (value % 64)]

\* Channel1::write_volume_envelope
Channel1WriteVolumeEnvelope(c, value) ==
    [c EXCEPT !.volume_envelope = value, !.envelope_ticks_left = value % 8]

\* write_frequency_low of channels 1, 2 and 3
WriteFrequencyLow(c, value) == [c EXCEPT !.frequency_low = value]

\* Channel1::write_frequency_high and Channel3::write_frequency_high, up to the
\* trigger: the extra length clock when the length counter is switched on and
\* the next tick does not clock it.
WriteFrequencyHighLength(c, value, clocks_next) ==
    IF ~StopWhenLengthExpires(c) /\ Bit(value, 6) = 1 /\ c.length_counter # 0
       /\ ~clocks_next
    THEN [c EXCEPT !.frequency_high = value,
                   !.length_counter = @ - 1,
                   !.enabled = IF c.length_counter = 1 /\ Bit(value, 7) = 0
                               THEN FALSE ELSE @]
    ELSE [c EXCEPT !.frequency_high = value]

\* Channel1::write_frequency_high
Channel1WriteFrequencyHigh(c, value) ==
    With(WriteFrequencyHighLength(c, value,
                                  Channel1_LENGTH_COUNTER_CLOCKS(c.frame_sequencer_idx)),
         LAMBDA d : IF Bit(value, 7) = 1 THEN Channel1SetEnabled(d, TRUE) ELSE d)

(* Channel 2 *)

\* Channel2::set_enabled
Channel2SetEnabled(c, value) ==
    IF ~value THEN [c EXCEPT !.enabled = FALSE]
    ELSE [c EXCEPT !.length_counter = IF @ = 0 THEN 64 ELSE @,
                   !.envelope_ticks_left = GetEnvelopeLength(c),
                   !.current_envelope_volume = GetInitialEnvelopeVolume(c),
                   !.enabled = TRUE]

\* Channel2::step and Channel4::step, the envelope clock
Channel2StepEnvelope(c) ==
    IF ~(GetEnvelopeLength(c) # 0 /\ VOLUME_ENVELOPE_CLOCKS(c.frame_sequencer_idx)) THEN c
    ELSE IF SaturatingDec(c.envelope_ticks_left) # 0
         THEN [c EXCEPT !.envelope_ticks_left = SaturatingDec(@)]
         ELSE [EnvelopeMove(c) EXCEPT !.envelope_ticks_left = EnvelopeReload(c)]

\* Channel2::step, the length clock
Channel2StepLength(c) ==
    IF ~(StopWhenLengthExpires(c) /\ Channel2_LENGTH_COUNTER_CLOCKS(c.frame_sequencer_idx))
    THEN c
    ELSE [c EXCEPT !.length_counter = SaturatingDec(@),
                   !.enabled = IF SaturatingDec(c.length_counter) = 0 THEN FALSE ELSE @]

\* Channel2::step, the frame sequencer tick
Channel2Tick(c) ==
    With(Channel2StepEnvelope(c), LAMBDA c1 :
    With(Channel2StepLength(c1), LAMBDA c2 :
         [c2 EXCEPT !.enabled = IF GetInitialEnvelopeVolume(c2) = 0 THEN FALSE ELSE @,
                    !.frame_sequencer_idx = (@ + 1) % 8]))

\* Channel2::step
Channel2Step(c) ==
    [(IF c.clock % SEQUENCER_CLOCK_PERIOD = 0 THEN Channel2Tick(c) ELSE c)
        EXCEPT !.clock = @ + 1]

\* Channel2::write_volume_envelope
Channel2WriteVolumeEnvelope(c, value) ==
    [c EXCEPT !.volume_envelope = value, !.current_envelope_volume = value \div 16]

\* Channel2::write_frequency_high
Channel2WriteFrequencyHigh(c, value) ==
    With([c EXCEPT !.frequency_high = value], LAMBDA d :
         IF Bit(value, 7) = 1 THEN Channel2SetEnabled(d, TRUE) ELSE d)

(* Channel 3 *)

\* Channel3::get_sound_playback
GetSoundPlayback(c) == Bit(c.sound_on_off, 7) = 1

\* Channel3::set_enabled
Channel3SetEnabled(c, value) ==
    IF ~value THEN [c EXCEPT !.enabled = FALSE]
    ELSE [c EXCEPT
            !.length_counter =
                IF @ # 0 THEN @
                ELSE IF StopWhenLengthExpires(c)
                        /\ ~Channel3_LENGTH_COUNTER_CLOCKS(c.frame_sequencer_idx)
                     THEN 255 ELSE 256,
            !.enabled = TRUE]

\* Channel3::step, the frame sequencer tick
Channel3Tick(c) ==
    IF StopWhenLengthExpires(c) /\ Channel3_LENGTH_COUNTER_CLOCKS(c.frame_sequencer_idx)
    THEN [c EXCEPT !.length_counter = SaturatingDec(@),
                   !.enabled = IF SaturatingDec(c.length_counter) = 0 THEN FALSE ELSE @,
                   !.frame_sequencer_idx = (@ + 1) % 8]
    ELSE [c EXCEPT !.frame_sequencer_idx = (@ + 1) % 8]

\* Channel3::step
Channel3Step(c) ==
    With(IF c.clock % SEQUENCER_CLOCK_PERIOD = 0 THEN Channel3Tick(c) ELSE c, LAMBDA d :
         [d EXCEPT !.enabled = IF ~GetSoundPlayback(d) THEN FALSE ELSE @,
                   !.clock = @ + 1])

\* Channel3::write_sound_on_off, write_sound_length, write_output_level
Channel3WriteSoundOnOff(c, value) == [c EXCEPT !.sound_on_off = value]
Channel3WriteSoundLength(c, value) ==
    [c EXCEPT !.sound_length = value, !.length_counter = 256 - value]
Channel3WriteOutputLevel(c, value) == [c EXCEPT !.output_level = value]

\* Channel3::write_frequency_high
Channel3WriteFrequencyHigh(c, value) ==
    With(WriteFrequencyHighLength(c, value,
                                  Channel3_LENGTH_COUNTER_CLOCKS(c.frame_sequencer_idx)),
         LAMBDA d : IF Bit(value, 7) = 1 THEN Channel3SetEnabled(d, TRUE) ELSE d)

(* Channel 4 *)

\* Channel4::stop_when_length_expires (NR44 bit 6)
Channel4StopWhenLengthExpires(c) == Bit(c.counter_consecutive, 6) = 1

\* Channel4::set_enabled
Channel4SetEnabled(c, value) ==
    IF ~value THEN [c EXCEPT !.enabled = FALSE]
    ELSE [c EXCEPT !.length_counter = IF @ = 0 THEN 64 ELSE @,
                   !.envelope_ticks_left = GetEnvelopeLength(c),
                   !.current_envelope_volume = GetInitialEnvelopeVolume(c),
                   !.enabled = TRUE]

\* Channel4::step, the frame sequencer tick
Channel4Tick(c) ==
    With(Channel2StepEnvelope(c), LAMBDA d :
         IF Channel4StopWhenLengthExpires(d)
            /\ Channel4_LENGTH_COUNTER_CLOCKS(d.frame_sequencer_idx)
         THEN [d EXCEPT !.length_counter = SaturatingDec(@),
                        !.enabled = IF SaturatingDec(d.length_counter) = 0
                                    THEN FALSE ELSE @,
                        !.frame_sequencer_idx = (@ + 1) % 8]
         ELSE [d EXCEPT !.frame_sequencer_idx = (@ + 1) % 8])

\* Channel4::step
Channel4Step(c) ==
    [(IF c.clock % SEQUENCER_CLOCK_PERIOD = 0 THEN Channel4Tick(c) ELSE c)
        EXCEPT !.clock = @ + 1]

\* Channel4::write_sound_length_register, write_volume_envelope
Channel4WriteSoundLengthRegister(c, value) ==
    [c EXCEPT !.sound_length = value, !.length_counter = 64 - (value % 64)]
Channel4WriteVolumeEnvelope(c, value) ==
    [c EXCEPT !.volume_envelope = value, !.envelope_ticks_left = value % 8]

\* Channel4::write_counter_consecutive: the trigger acts before the register
\* takes the value.
Channel4WriteCounterConsecutive(c, value) ==
    [(IF Bit(value, 7) = 1 THEN Channel4SetEnabled(c, TRUE) ELSE c)
        EXCEPT !.counter_consecutive = value]

(* Apu *)

\* Apu::step
ApuStep(apu) ==
    [apu EXCEPT !.channel_1 = Channel1Step(@), !.channel_2 = Channel2Step(@),
                !.channel_3 = Channel3Step(@), !.channel_4 = Channel4Step(@)]

\* Apu::write_nr52
WriteNr52(apu, value) ==
    [apu EXCEPT !.all_sound_on = Bit(value, 7) = 1,
                !.channel_1 = Channel1SetEnabled(@, Bit(value, 7) = 1),
                !.channel_2 = Channel2SetEnabled(@, Bit(value, 7) = 1),
                !.channel_3 = Channel3SetEnabled(@, Bit(value, 7) = 1),
                !.channel_4 = Channel4SetEnabled(@, Bit(value, 7) = 1)]

\* Apu::read_nr52
ReadNr52(apu) ==
    (IF apu.all_sound_on THEN 128 ELSE 0)
    + (IF apu.channel_1.enabled THEN 1 ELSE 0) + (IF apu.channel_2.enabled THEN 2 ELSE 0)
    + (IF apu.channel_3.enabled THEN 4 ELSE 0) + (IF apu.channel_4.enabled THEN 8 ELSE 0)

\* Bus::write_byte_address on 0xFF10-0xFF26 (bus.rs), as Apu::write_nrXY hands
\* the byte on
ApuWrite(apu, value, address) ==
    CASE address = 65296 -> [apu EXCEPT !.channel_1 = Channel1WriteSweep(@, value)]
      [] address = 65297 -> [apu EXCEPT !.channel_1 = WriteSoundLengthWaveDuty(@, value)]
      [] address = 65298 -> [apu EXCEPT !.channel_1 = Channel1WriteVolumeEnvelope(@, value)]
      [] address = 65299 -> [apu EXCEPT !.channel_1 = WriteFrequencyLow(@, value)]
      [] address = 65300 -> [apu EXCEPT !.channel_1 = Channel1WriteFrequencyHigh(@, value)]
      [] address = 65302 -> [apu EXCEPT !.channel_2 = WriteSoundLengthWaveDuty(@, value)]
      [] address = 65303 -> [apu EXCEPT !.channel_2 = Channel2WriteVolumeEnvelope(@, value)]
      [] address = 65304 -> [apu EXCEPT !.channel_2 = WriteFrequencyLow(@, value)]
      [] address = 65305 -> [apu EXCEPT !.channel_2 = Channel2WriteFrequencyHigh(@, value)]
      [] address = 65306 -> [apu EXCEPT !.channel_3 = Channel3WriteSoundOnOff(@, value)]
      [] address = 65307 -> [apu EXCEPT !.channel_3 = Channel3WriteSoundLength(@, value)]
      [] address = 65308 -> [apu EXCEPT !.channel_3 = Channel3WriteOutputLevel(@, value)]
      [] address = 65309 -> [apu EXCEPT !.channel_3 = WriteFrequencyLow(@, value)]
      [] address = 65310 -> [apu EXCEPT !.channel_3 = Channel3WriteFrequencyHigh(@, value)]
      [] address = 65312 -> [apu EXCEPT !.channel_4 = Channel4WriteSoundLengthRegister(@, value)]
      [] address = 65313 -> [apu EXCEPT !.channel_4 = Channel4WriteVolumeEnvelope(@, value)]
      [] address = 65315 -> [apu EXCEPT !.channel_4 = Channel4WriteCounterConsecutive(@, value)]
      [] address = 65316 -> [apu EXCEPT !.channel_control = value]
      [] address = 65317 -> [apu EXCEPT !.output_terminal_selection = value]
      [] address = 65318 -> WriteNr52(apu, value)
      [] OTHER -> apu

(* The noise generator of channel 4: polynomial_counter,                    *)
(* linear_feedback_shift_register and noise_ticks_left, which Channel4::step *)
(* runs beside the frame sequencer.                                         *)

\* Channel4::get_divisor_code, get_shift_clock_frequency, get_counter_byte_width
GetDivisorCode(n) == n.polynomial_counter % 8
GetShiftClockFrequency(n) == n.polynomial_counter \div 16
GetCounterByteWidth(n) == Bit(n.polynomial_counter, 3) = 1

\* Channel4::get_divisor, a u8
GetDivisor(n) == IF GetDivisorCode(n) = 0 THEN 8 ELSE (GetDivisorCode(n) * 16) % 256

\* u16::from(get_divisor()) << u16::from(get_shift_clock_frequency()): the bits
\* shifted past bit 15 are lost.
NoiseReload(n) == (GetDivisor(n) * Pow2(GetShiftClockFrequency(n))) % 65536

\* Channel4::step, the shift register clocked: bit 0 xor bit 1 goes to bit 14,
\* and to bit 6 as well in 7-bit mode.
Channel4ClockLfsr(n) ==
    With((Bit(n.linear_feedback_shift_register, 0)
           + Bit(n.linear_feedback_shift_register, 1)) % 2,
         LAMBDA xor_result :
             With(BitOr(n.linear_feedback_shift_register \div 2, xor_result * 16384),
                  LAMBDA shifted :
                      [n EXCEPT !.linear_feedback_shift_register =
                           IF GetCounterByteWidth(n)
                           THEN ClearBit(shifted, 6) + xor_result * 64
                           ELSE shifted]))

\* Channel4::step, the noise timer
Channel4StepNoise(n) ==
    IF SaturatingDec(n.noise_ticks_left) # 0
    THEN [n EXCEPT !.noise_ticks_left = SaturatingDec(@)]
    ELSE [Channel4ClockLfsr(n) EXCEPT !.noise_ticks_left = NoiseReload(n)]

\* Channel4::set_enabled(true), the noise generator
Channel4TriggerNoise(n) ==
    [n EXCEPT !.noise_ticks_left = NoiseReload(n),
              !.linear_feedback_shift_register = 65535]

\* Channel4::write_polynomial_counter
WritePolynomialCounter(n, value) == [n EXCEPT !.polynomial_counter = value]
---------------------------------------------------------------------------
(* Bus (emulator-core/src/bus.rs).  A system state s is the record of the  *)
(* structs plus the bytes the cartridge shows at the program counter;      *)
(* every method of the bus maps a system state to its successor.           *)

\* cartridge.read for the three bytes at the address the step began at; the
\* cartridge is an input of the model.
InCartridgeWindow(s, address) ==
    /\ address >= s.cartridge.base
    /\ address - s.cartridge.base < Len(s.cartridge.bytes)

CartridgeRead(s, address) == s.cartridge.bytes[address - s.cartridge.base + 1]

\* Addresses 0x0000-0x00FF and 0x0200-0x08FF show the boot ROM while it is enabled.
InBootRom(s, address) ==
    s.bus.boot_rom_enabled /\ (address <= 255 \/ (address >= 512 /\ address <= 2303))

\* Bus::read_byte_address below 0x8000: the memory that supplies the byte, the
\* boot ROM image or the cartridge.
LowReadSource(s, address) == IF InBootRom(s, address) THEN "BOOT_ROM" ELSE "cartridge"

\* Bus::read_key_1
ReadKey1(s) ==
    (IF s.bus.prepare_speed_switch THEN 1 ELSE 0)
    + (IF s.bus.current_speed = "Double" THEN 128 ELSE 0)

\* 0xE000-0xFDFF (echo RAM) is read and written as the address 0x2000 below.
EchoBase(address) ==
    IF address >= 57344 /\ address <= 65023 THEN address - 8192 ELSE address

\* 0x8000-0x9FFF, 0xC000-0xCFFF and 0xD000-0xDFFF: the bytes of tile data
\* (VRAM bank 0), of work RAM bank 0 and of the selected work RAM bank that
\* the state carries.
InVramWindow(s, address) ==
    address >= 32768 /\ address <= 40959 /\ (address - 32768) \in DOMAIN s.ppu.tile_data

InWramWindow(s, address) ==
    address >= 49152 /\ address <= 53247 /\ (address - 49152) \in DOMAIN s.bus.wram_banks[0]

InWramBankWindow(s, address) ==
    /\ address >= 53248 /\ address <= 57343
    /\ (address - 53248) \in DOMAIN s.bus.wram_banks[s.bus.wram_bank_index]

\* The addresses of read_byte_address whose contents the model carries.
Readable(s, address) ==
    \/ address <= 32767 /\ ~InBootRom(s, address) /\ InCartridgeWindow(s, address)
    \/ InVramWindow(s, address)
    \/ InWramWindow(s, EchoBase(address)) \/ InWramBankWindow(s, EchoBase(address))
    \/ address \in {65280, 65284, 65285, 65286, 65287, 65295}
    \/ address \in {65344, 65345, 65348, 65349, 65357, 65392}
    \/ address >= 65408

\* Bus::read_byte_address
ReadByteAddress(s, address) ==
    CASE address <= 32767 /\ Readable(s, address) -> CartridgeRead(s, address)
      [] InVramWindow(s, address) -> s.ppu.tile_data[address - 32768]
      [] InWramWindow(s, EchoBase(address)) -> s.bus.wram_banks[0][EchoBase(address) - 49152]
      [] InWramBankWindow(s, EchoBase(address)) ->
             s.bus.wram_banks[s.bus.wram_bank_index][EchoBase(address) - 53248]
      [] address = 65280 -> JoypadRead(s.joypad)                  \* 0xFF00
      [] address = 65284 -> GetDividerRegister(s.timer)           \* 0xFF04
      [] address = 65285 -> s.timer.timer_counter                 \* 0xFF05
      [] address = 65286 -> s.timer.timer_modulo                  \* 0xFF06
      [] address = 65287 -> s.timer.timer_control                 \* 0xFF07
      [] address = 65295 -> s.bus.interrupt_flag                  \* 0xFF0F
      [] address = 65344 -> s.ppu.lcd_control                     \* 0xFF40
      [] address = 65345 -> s.ppu.stat                            \* 0xFF41
      [] address = 65348 -> s.ppu.lcd_y                           \* 0xFF44
      [] address = 65349 -> s.ppu.lcd_y_compare                   \* 0xFF45
      [] address = 65357 -> ReadKey1(s)                           \* 0xFF4D
      [] address = 65392 -> s.bus.wram_bank_index                 \* 0xFF70
      [] address >= 65408 /\ address <= 65534 -> s.bus.high_ram[address - 65408]
      [] address = 65535 -> s.bus.interrupt_enable                \* 0xFFFF
      [] OTHER -> 0

\* Bus::write_dma_source_high / _low, write_dma_destination_high / _low
WriteDmaSourceHigh(b, value) ==
    [b EXCEPT !.dma_source = (@ % 256) + value * 256]

WriteDmaSourceLow(b, value) ==
    [b EXCEPT !.dma_source = (@ \div 256) * 256 + BitAnd(value, 240)]

WriteDmaDestinationHigh(b, value) ==
    [b EXCEPT !.dma_destination = (@ % 256) + (BitAnd(value, 31) + 128) * 256]

WriteDmaDestinationLow(b, value) ==
    [b EXCEPT !.dma_destination = (@ \div 256) * 256 + BitAnd(value, 240)]

\* The addresses of write_byte_address whose effect the model carries.
Writable(s, address) ==
    \/ address \in {65280, 65284, 65285, 65286, 65287, 65295}
    \/ address \in {65344, 65345, 65349, 65357, 65360}
    \/ address \in 65361 .. 65365
    \/ address = 65392
    \/ address >= 65408
    \/ InVramWindow(s, address)
    \/ InWramWindow(s, EchoBase(address)) \/ InWramBankWindow(s, EchoBase(address))

\* Bus::write_byte_address on 0xFF70, with the bank 0 that it may not select
WriteWramBank_AllowZero(b, value) == [b EXCEPT !.wram_bank_index = value % 8]

\* Bus::write_byte_address on 0xFF70
WriteWramBank(b, value) ==
    [b EXCEPT !.wram_bank_index = IF value % 8 = 0 THEN 1 ELSE value % 8]

\* The arms of write_byte_address other than 0xFF55.
StoreByte(s, value, address) ==
    CASE InVramWindow(s, address) -> [s EXCEPT !.ppu.tile_data[address - 32768] = value]
      [] InWramWindow(s, EchoBase(address)) ->
             [s EXCEPT !.bus.wram_banks[0][EchoBase(address) - 49152] = value]
      [] InWramBankWindow(s, EchoBase(address)) ->
             [s EXCEPT !.bus.wram_banks[s.bus.wram_bank_index][EchoBase(address) - 53248] =
                           value]
      [] address = 65280 -> [s EXCEPT !.joypad = JoypadWrite(@, value)]
      [] address = 65284 -> [s EXCEPT !.timer = SetDividerRegister(@, value)]
      [] address = 65285 -> [s EXCEPT !.timer = SetTimerCounter(@, value)]
      [] address = 65286 -> [s EXCEPT !.timer = SetTimerModulo(@, value)]
      [] address = 65287 -> [s EXCEPT !.timer = SetTimerControl(@, value)]
      [] address = 65295 -> [s EXCEPT !.bus.interrupt_flag = value % 32]
      [] address = 65344 -> [s EXCEPT !.ppu = WriteLcdControl(@, value)]
      [] address = 65345 -> [s EXCEPT !.ppu = WriteStat(@, value)]
      [] address = 65349 -> [s EXCEPT !.ppu = WriteLcdYCompare(@, value)]
      [] address = 65357 -> [s EXCEPT !.bus.prepare_speed_switch = value % 2 = 1]
      [] address = 65360 -> [s EXCEPT !.bus.boot_rom_enabled = value = 0]
      [] address = 65361 -> [s EXCEPT !.bus = WriteDmaSourceHigh(@, value)]
      [] address = 65362 -> [s EXCEPT !.bus = WriteDmaSourceLow(@, value)]
      [] address = 65363 -> [s EXCEPT !.bus = WriteDmaDestinationHigh(@, value)]
      [] address = 65364 -> [s EXCEPT !.bus = WriteDmaDestinationLow(@, value)]
      [] address = 65392 -> [s EXCEPT !.bus = WriteWramBank(@, value)]
      [] address >= 65408 /\ address <= 65534 ->
             [s EXCEPT !.bus.high_ram[address - 65408] = value]
      [] address = 65535 -> [s EXCEPT !.bus.interrupt_enable = value % 32]
      [] OTHER -> s

\* The observation of a call of write_byte_address.
Stored(s, value, address) ==
    [s EXCEPT !.obs.writes = Append(@, <<address, value, s.cpu.m_cycles_completed>>),
              !.obs.modelled = @ /\ Writable(s, address)]

\* One byte of a DMA block: read at dma_source, store at dma_destination, both
\* advanced by one.  The u16 additions overflow beyond 0xFFFF, which the
\* specifications stay below.
DmaCopyByte(s) ==
    [StoreByte(Stored(s, ReadByteAddress(s, s.bus.dma_source), s.bus.dma_destination),
               ReadByteAddress(s, s.bus.dma_source), s.bus.dma_destination)
        EXCEPT !.bus.dma_source = @ + 1,
               !.bus.dma_destination = @ + 1,
               !.obs.modelled = /\ @ /\ Readable(s, s.bus.dma_source)
                                /\ s.bus.dma_source < 65535
                                /\ s.bus.dma_destination < 65535]

\* for _ in 0..count { one byte }
RECURSIVE DmaCopy(_, _)
DmaCopy(s, count) ==
    IF count = 0 THEN s ELSE With(DmaCopyByte(s), LAMBDA t : DmaCopy(t, count - 1))

DMA_BLOCK_SIZE == 16

\* Bus::write_dma_start
WriteDmaStart(s, value) ==
    IF value >= 128
    THEN [s EXCEPT !.bus.hblank_dma_blocks_left = (value % 128) + 1,
                   !.bus.hblank_dma_ongoing = TRUE]
    ELSE IF s.bus.hblank_dma_blocks_left > 0
    THEN [s EXCEPT !.bus.hblank_dma_ongoing = FALSE]
    ELSE [DmaCopy(s, ((value % 128) + 1) * DMA_BLOCK_SIZE)
             EXCEPT !.bus.hblank_dma_blocks_left = 0,
                    !.bus.hblank_dma_ongoing = FALSE]

\* Bus::read_dma_start
ReadDmaStart(s) ==
    IF s.bus.hblank_dma_ongoing
    THEN (s.bus.hblank_dma_blocks_left + 255) % 256
    ELSE SetBit((s.bus.hblank_dma_blocks_left + 255) % 256, 7)

\* Bus::write_byte_address
WriteByteAddress(s, value, address) ==
    IF address = 65365 THEN WriteDmaStart(Stored(s, value, address), value)
    ELSE StoreByte(Stored(s, value, address), value, address)

\* flag | mask when the source's poll returned true
RequestBit(flag, requested, bit) == IF requested THEN SetBit(flag, bit) ELSE flag

\* Bus::update_interrupt_flag: every latched source is moved into IF.
UpdateInterruptFlag(s) ==
    [s EXCEPT !.timer = TimerPollInterrupt(@)[2],
              !.ppu = PollStatInterrupt(PollVblankInterrupt(@)[2])[2],
              !.joypad = JoypadPollInterrupt(@)[2],
              !.bus.interrupt_flag =
                  RequestBit(RequestBit(RequestBit(RequestBit(@,
                      TimerPollInterrupt(s.timer)[1], 2),
                      PollVblankInterrupt(s.ppu)[1], 0),
                      PollStatInterrupt(s.ppu)[1], 1),
                      JoypadPollInterrupt(s.joypad)[1], 4)]

\* The PPU (and APU) step of iteration i: skipped on the odd iterations in
\* double speed.
PpuTick(s, i) ==
    IF s.bus.current_speed = "Double" /\ i % 2 = 1 THEN s
    ELSE [s EXCEPT !.ppu = PpuStep(@), !.obs.ppu_steps = @ + 1]

\* The H-blank DMA block of step_m_cycle: sixteen bytes, one block fewer
\* left, and the transfer over when none is left.
HblankDmaBlock(s) ==
    [DmaCopy(s, DMA_BLOCK_SIZE)
        EXCEPT !.bus.hblank_dma_blocks_left = @ - 1,
               !.bus.hblank_dma_ongoing = IF s.bus.hblank_dma_blocks_left - 1 = 0
                                          THEN FALSE ELSE @]

HblankDma_WhileInHblank(s, old_ppu_mode) ==
    IF /\ GetStatMode(s.ppu) = "HBlank"
       /\ s.bus.hblank_dma_blocks_left > 0 /\ s.bus.hblank_dma_ongoing
    THEN HblankDmaBlock(s)
    ELSE s

\* The condition of step_m_cycle on the modes before and after the PPU step.
HblankDma(s, old_ppu_mode) ==
    IF /\ old_ppu_mode # "HBlank" /\ GetStatMode(s.ppu) = "HBlank"
       /\ s.bus.hblank_dma_blocks_left > 0 /\ s.bus.hblank_dma_ongoing
    THEN HblankDmaBlock(s)
    ELSE s

\* Iteration i of the loop of step_m_cycle: PPU, timer (on all four
\* iterations), DMA, update_interrupt_flag.
BusTick(s, i) ==
    UpdateInterruptFlag(HblankDma([PpuTick(s, i) EXCEPT !.timer = TimerStep(@)],
                                  GetStatMode(s.ppu)))

\* for i in 0..4
RECURSIVE BusTicks(_, _)
BusTicks(s, i) ==
    IF i = 4 THEN s ELSE With(BusTick(s, i), LAMBDA s1 : BusTicks(s1, i + 1))

\* Bus::step_m_cycle
StepMCycle(s) == BusTicks(s, 0)

\* The sources, by bit index, that poll_interrupt's loop would take.
PendingInterrupts(s) ==
    {b \in 0 .. 4 : Bit(s.bus.interrupt_enable, b) = 1 /\ Bit(s.bus.interrupt_flag, b) = 1}

\* The loop of poll_interrupt over the bits 0..=4 in ascending order.
TakeInterrupt(s, pending) ==
    IF ~s.bus.interrupt_master_enable \/ pending = {} THEN <<-1, s>>
    ELSE LET bit_idx == CHOOSE b \in pending : \A c \in pending : b <= c
         IN  <<bit_idx, [s EXCEPT !.bus.interrupt_flag = ClearBit(@, bit_idx),
                                  !.bus.interrupt_master_enable = FALSE]>>

PollInterrupt_IgnoreEnable(s) ==
    With(UpdateInterruptFlag(s),
         LAMBDA s1 : TakeInterrupt(s1, {b \in 0 .. 4 : Bit(s1.bus.interrupt_flag, b) = 1}))

\* Bus::poll_interrupt: <<bit index of the returned source or -1 for None, s'>>
PollInterrupt(s) ==
    With(UpdateInterruptFlag(s), LAMBDA s1 : TakeInterrupt(s1, PendingInterrupts(s1)))

HaltFinished_NeedsMasterEnable(s) ==
    /\ s.bus.interrupt_master_enable
    /\ BitAnd(s.bus.interrupt_enable, s.bus.interrupt_flag) # 0

\* Bus::halt_finished
HaltFinished(s) == BitAnd(s.bus.interrupt_enable, s.bus.interrupt_flag) # 0

\* Bus::maybe_handle_stop: <<handled, s'>>
MaybeHandleStop(s) ==
    IF s.bus.prepare_speed_switch
    THEN <<TRUE, [s EXCEPT !.bus.current_speed =
                               IF @ = "Normal" THEN "Double" ELSE "Normal",
                           !.bus.prepare_speed_switch = FALSE]>>
    ELSE <<FALSE, s>>

---------------------------------------------------------------------------
(* Cpu (emulator-core/src/cpu.rs): operand access.  Additions to pc and sp *)
(* wrap at 16 bits, as the release build computes them.                    *)

\* Addressing modes: the variant's name and its payload (0 when it has none).
Mode(name) == [mode |-> name, arg |-> 0]
Literal(val) == [mode |-> "Literal", arg |-> val]
LiteralIndirect(address) == [mode |-> "LiteralIndirect", arg |-> address]

Wrap16(x) == x % 65536
Msb(x) == x \div 256
Lsb(x) == x % 256

\* i8 as u16: the sign-extended operand of the wrapping additions
SignExtend(b) == IF b >= 128 THEN b + 65280 ELSE b

\* Cpu::delay_m_cycle
DelayMCycle(s) == [StepMCycle(s) EXCEPT !.cpu.m_cycles_completed = @ + 1]

\* bus.read_byte_address as the CPU calls it: <<value, s'>>
BusRead(s, address) ==
    <<ReadByteAddress(s, address),
      [s EXCEPT !.obs.modelled = @ /\ Readable(s, address)]>>

\* The bus address of an indirect byte location.
IndirectAddress(s, location) ==
    CASE location.mode = "CIndirect" -> 65280 + Lsb(s.cpu.bc)
      [] location.mode = "BcIndirect" -> s.cpu.bc
      [] location.mode = "DeIndirect" -> s.cpu.de
      [] location.mode \in {"HlIndirect", "HlIndirectIncrement", "HlIndirectDecrement"} ->
             s.cpu.hl
      [] location.mode = "LiteralIndirect" -> location.arg

\* HL after an access through (HL+) or (HL-).
AfterIndirect(s, location) ==
    CASE location.mode = "HlIndirectIncrement" -> [s EXCEPT !.cpu.hl = Wrap16(@ + 1)]
      [] location.mode = "HlIndirectDecrement" -> [s EXCEPT !.cpu.hl = Wrap16(@ + 65535)]
      [] OTHER -> s

\* Cpu::read_byte: <<value, s'>>.  A register or a literal costs nothing; a
\* memory location costs one M-cycle, spent before the bus is read.
ReadByte(s, location) ==
    CASE location.mode = "Accumulator" -> <<Msb(s.cpu.af), s>>
      [] location.mode = "B" -> <<Msb(s.cpu.bc), s>>
      [] location.mode = "C" -> <<Lsb(s.cpu.bc), s>>
      [] location.mode = "D" -> <<Msb(s.cpu.de), s>>
      [] location.mode = "E" -> <<Lsb(s.cpu.de), s>>
      [] location.mode = "H" -> <<Msb(s.cpu.hl), s>>
      [] location.mode = "L" -> <<Lsb(s.cpu.hl), s>>
      [] location.mode = "Literal" -> <<location.arg, s>>
      [] OTHER ->
             Bind(BusRead(DelayMCycle(s), IndirectAddress(s, location)),
                  LAMBDA value, s1 : <<value, AfterIndirect(s1, location)>>)

\* Cpu::read_word: <<value, s'>>
ReadWord(s, location) ==
    CASE location.mode = "Af" -> <<s.cpu.af, s>>
      [] location.mode = "Bc" -> <<s.cpu.bc, s>>
      [] location.mode = "De" -> <<s.cpu.de, s>>
      [] location.mode = "Hl" -> <<s.cpu.hl, s>>
      [] location.mode = "Sp" -> <<s.cpu.sp, s>>
      [] location.mode = "Literal" -> <<location.arg, s>>
      [] location.mode = "LiteralIndirect" ->
             Bind(BusRead(DelayMCycle(s), location.arg),
                  LAMBDA lsb_byte, s1 :
                      Bind(BusRead(DelayMCycle(s1), Wrap16(location.arg + 1)),
                           LAMBDA msb_byte, s2 : <<msb_byte * 256 + lsb_byte, s2>>))

\* Cpu::write_byte: a memory location costs one M-cycle, spent before the bus
\* is written.
WriteByte(s, val, location) ==
    CASE location.mode = "Accumulator" -> [s EXCEPT !.cpu.af = val * 256 + Lsb(@)]
      [] location.mode = "B" -> [s EXCEPT !.cpu.bc = val * 256 + Lsb(@)]
      [] location.mode = "C" -> [s EXCEPT !.cpu.bc = Msb(@) * 256 + val]
      [] location.mode = "D" -> [s EXCEPT !.cpu.de = val * 256 + Lsb(@)]
      [] location.mode = "E" -> [s EXCEPT !.cpu.de = Msb(@) * 256 + val]
      [] location.mode = "H" -> [s EXCEPT !.cpu.hl = val * 256 + Lsb(@)]
      [] location.mode = "L" -> [s EXCEPT !.cpu.hl = Msb(@) * 256 + val]
      [] OTHER ->
             AfterIndirect(WriteByteAddress(DelayMCycle(s), val,
                                            IndirectAddress(s, location)), location)

\* The LiteralIndirect arm of write_word: the low byte, then the high byte.
WriteWordIndirect(s, val, address) ==
    WriteByteAddress(DelayMCycle(WriteByteAddress(DelayMCycle(s), Lsb(val), address)),
                     Msb(val), Wrap16(address + 1))

WriteWord_Unmasked(s, val, location) ==
    CASE location.mode = "Af" -> [s EXCEPT !.cpu.af = val]
      [] location.mode = "Bc" -> [s EXCEPT !.cpu.bc = val]
      [] location.mode = "De" -> [s EXCEPT !.cpu.de = val]
      [] location.mode = "Hl" -> [s EXCEPT !.cpu.hl = val]
      [] location.mode = "Sp" -> [s EXCEPT !.cpu.sp = val]
      [] location.mode = "LiteralIndirect" -> WriteWordIndirect(s, val, location.arg)

\* Cpu::write_word: a write to AF keeps the low nibble of F zero
WriteWord(s, val, location) ==
    CASE location.mode = "Af" -> [s EXCEPT !.cpu.af = val - (val % 16)]
      [] location.mode = "Bc" -> [s EXCEPT !.cpu.bc = val]
      [] location.mode = "De" -> [s EXCEPT !.cpu.de = val]
      [] location.mode = "Hl" -> [s EXCEPT !.cpu.hl = val]
      [] location.mode = "Sp" -> [s EXCEPT !.cpu.sp = val]
      [] location.mode = "LiteralIndirect" -> WriteWordIndirect(s, val, location.arg)

\* get_zero_flag, get_carry_flag
GetZeroFlag(s) == Bit(s.cpu.af, 7) = 1
GetCarryFlag(s) == Bit(s.cpu.af, 4) = 1

\* set_zero_flag (bit 7), set_subtract_flag (6), set_half_carry_flag (5),
\* set_carry_flag (4)
SetFlag(s, bit, set) ==
    [s EXCEPT !.cpu.af = IF set THEN SetBit(@, bit) ELSE ClearBit(@, bit)]

SetFlags(s, z, n, h, c) == SetFlag(SetFlag(SetFlag(SetFlag(s, 7, z), 6, n), 5, h), 4, c)

\* Cpu::should_branch
ShouldBranch(s, condition) ==
    CASE condition = "NotZero" -> ~GetZeroFlag(s)
      [] condition = "NotCarry" -> ~GetCarryFlag(s)
      [] condition = "Zero" -> GetZeroFlag(s)
      [] condition = "Carry" -> GetCarryFlag(s)
      [] condition = "Unconditional" -> TRUE

---------------------------------------------------------------------------
(* Cpu::decode, for the opcodes the model carries.                         *)

Nop ==
    [instruction_type |-> "Nop", source |-> Mode("None"), destination |-> Mode("None"),
     target |-> Mode("None"), condition |-> "Unconditional", value |-> 0]

\* The register pair named by bits 4-5 of the opcode
WordRegister(opcode) ==
    CASE (opcode \div 16) % 4 = 0 -> Mode("Bc")
      [] (opcode \div 16) % 4 = 1 -> Mode("De")
      [] (opcode \div 16) % 4 = 2 -> Mode("Hl")
      [] (opcode \div 16) % 4 = 3 -> Mode("Sp")

\* The pushed or popped pair: AF takes the place of SP
StackRegister(opcode) ==
    IF (opcode \div 16) % 4 = 3 THEN Mode("Af") ELSE WordRegister(opcode)

\* The register named by bits 3-5 of the opcode
ByteRegister(opcode) ==
    CASE (opcode \div 8) % 8 = 0 -> Mode("B")
      [] (opcode \div 8) % 8 = 1 -> Mode("C")
      [] (opcode \div 8) % 8 = 2 -> Mode("D")
      [] (opcode \div 8) % 8 = 3 -> Mode("E")
      [] (opcode \div 8) % 8 = 4 -> Mode("H")
      [] (opcode \div 8) % 8 = 5 -> Mode("L")
      [] (opcode \div 8) % 8 = 6 -> Mode("HlIndirect")
      [] (opcode \div 8) % 8 = 7 -> Mode("Accumulator")

\* The branch condition named by bits 3-4 of the opcode
BranchCondition(opcode) ==
    CASE (opcode \div 8) % 4 = 0 -> "NotZero"
      [] (opcode \div 8) % 4 = 1 -> "Zero"
      [] (opcode \div 8) % 4 = 2 -> "NotCarry"
      [] (opcode \div 8) % 4 = 3 -> "Carry"

\* self.pc += n
AdvancePc(s, n) == [s EXCEPT !.cpu.pc = Wrap16(@ + n)]

\* The opcodes whose arm of decode the model carries.
ModelledOpcodes ==
    {0, 8, 16, 24, 55, 63, 118, 195, 201, 205, 217, 224, 226, 232, 233, 234, 240,
     242, 243, 248, 249, 250, 251}
    \cup {1, 17, 33, 49} \cup {3, 19, 35, 51} \cup {11, 27, 43, 59}
    \cup {6, 14, 22, 30, 38, 46, 54, 62} \cup {9, 25, 41, 57} \cup {32, 40, 48, 56}
    \cup {192, 200, 208, 216} \cup {193, 209, 225, 241} \cup {194, 202, 210, 218}
    \cup {196, 204, 212, 220} \cup {197, 213, 229, 245}
    \cup {199, 207, 215, 223, 231, 239, 247, 255}

\* The number of operand bytes the arm of the opcode reads at pc + 1.
OperandBytes(opcode) ==
    CASE opcode \in {6, 14, 22, 30, 38, 46, 54, 62, 24, 32, 40, 48, 56,
                     224, 240, 232, 248} -> 1
      [] opcode \in {1, 17, 33, 49, 8, 194, 202, 210, 218, 195, 196, 204, 212, 220,
                     205, 234, 250} -> 2
      [] OTHER -> 0

\* The Instruction that the arm of the opcode builds from its operand.
InstructionOf(opcode, operand) ==
    CASE opcode = 0 -> Nop  \* 0x00
      [] opcode \in {1, 17, 33, 49} ->  \* LD rr,nn
           [Nop EXCEPT !.instruction_type = "LdWord",
                       !.source = Literal(operand),
                       !.destination = WordRegister(opcode)]
      [] opcode \in {3, 19, 35, 51} ->  \* INC rr
           [Nop EXCEPT !.instruction_type = "IncWord",
                       !.target = WordRegister(opcode)]
      [] opcode \in {11, 27, 43, 59} ->  \* DEC rr
           [Nop EXCEPT !.instruction_type = "DecWord",
                       !.target = WordRegister(opcode)]
      [] opcode \in {6, 14, 22, 30, 38, 46, 54, 62} ->  \* LD r,n
           [Nop EXCEPT !.instruction_type = "LdByte",
                       !.source = Literal(operand),
                       !.destination = ByteRegister(opcode)]
      [] opcode = 8 ->  \* LD (nn),SP
           [Nop EXCEPT !.instruction_type = "LdWord",
                       !.source = Mode("Sp"),
                       !.destination = LiteralIndirect(operand)]
      [] opcode \in {9, 25, 41, 57} ->  \* ADD HL,rr
           [Nop EXCEPT !.instruction_type = "AddHl",
                       !.source = WordRegister(opcode)]
      [] opcode = 16 -> [Nop EXCEPT !.instruction_type = "Stop"]  \* 0x10
      [] opcode = 24 ->  \* JR e
           [Nop EXCEPT !.instruction_type = "Jr",
                       !.source = Literal(operand)]
      [] opcode \in {32, 40, 48, 56} ->  \* JR cc,e
           [Nop EXCEPT !.instruction_type = "Jr",
                       !.source = Literal(operand),
                       !.condition = BranchCondition(opcode)]
      [] opcode = 55 -> [Nop EXCEPT !.instruction_type = "Scf"]  \* 0x37
      [] opcode = 63 -> [Nop EXCEPT !.instruction_type = "Ccf"]  \* 0x3F
      [] opcode = 118 -> [Nop EXCEPT !.instruction_type = "Halt"] \* 0x76
      [] opcode \in {192, 200, 208, 216} ->  \* RET cc
           [Nop EXCEPT !.instruction_type = "Ret",
                       !.condition = BranchCondition(opcode)]
      [] opcode \in {193, 209, 225, 241} ->  \* POP rr
           [Nop EXCEPT !.instruction_type = "Pop",
                       !.target = StackRegister(opcode)]
      [] opcode \in {194, 202, 210, 218} ->  \* JP cc,nn
           [Nop EXCEPT !.instruction_type = "Jp",
                       !.target = Literal(operand),
                       !.condition = BranchCondition(opcode)]
      [] opcode = 195 ->  \* JP nn
           [Nop EXCEPT !.instruction_type = "Jp",
                       !.target = Literal(operand)]
      [] opcode \in {196, 204, 212, 220} ->  \* CALL cc,nn
           [Nop EXCEPT !.instruction_type = "Call",
                       !.target = Literal(operand),
                       !.condition = BranchCondition(opcode)]
      [] opcode \in {197, 213, 229, 245} ->  \* PUSH rr
           [Nop EXCEPT !.instruction_type = "Push",
                       !.source = StackRegister(opcode)]
      [] opcode \in {199, 207, 215, 223, 231, 239, 247, 255} ->  \* RST
           [Nop EXCEPT !.instruction_type = "Rst",
                       !.value = ((opcode \div 8) % 8) * 8]
      [] opcode = 201 -> [Nop EXCEPT !.instruction_type = "Ret"]  \* 0xC9
      [] opcode = 205 ->  \* CALL nn
           [Nop EXCEPT !.instruction_type = "Call",
                       !.target = Literal(operand)]
      [] opcode = 217 -> [Nop EXCEPT !.instruction_type = "Reti"] \* 0xD9
      [] opcode = 224 ->  \* LDH (n),A
           [Nop EXCEPT !.instruction_type = "LdByte",
                       !.source = Mode("Accumulator"),
                       !.destination = LiteralIndirect(65280 + operand)]
      [] opcode = 240 ->  \* LDH A,(n)
           [Nop EXCEPT !.instruction_type = "LdByte",
                       !.source = LiteralIndirect(65280 + operand),
                       !.destination = Mode("Accumulator")]
      [] opcode = 226 ->  \* LD (C),A
           [Nop EXCEPT !.instruction_type = "LdByte",
                       !.source = Mode("Accumulator"),
                       !.destination = Mode("CIndirect")]
      [] opcode = 242 ->  \* LD A,(C)
           [Nop EXCEPT !.instruction_type = "LdByte",
                       !.source = Mode("CIndirect"),
                       !.destination = Mode("Accumulator")]
      [] opcode = 232 ->  \* ADD SP,e
           [Nop EXCEPT !.instruction_type = "AddSp",
                       !.value = operand]
      [] opcode = 233 -> [Nop EXCEPT !.instruction_type = "JpHl"] \* 0xE9
      [] opcode = 234 ->  \* LD (nn),A
           [Nop EXCEPT !.instruction_type = "LdByte",
                       !.source = Mode("Accumulator"),
                       !.destination = LiteralIndirect(operand)]
      [] opcode = 250 ->  \* LD A,(nn)
           [Nop EXCEPT !.instruction_type = "LdByte",
                       !.source = LiteralIndirect(operand),
                       !.destination = Mode("Accumulator")]
      [] opcode = 243 -> [Nop EXCEPT !.instruction_type = "Di"]  \* 0xF3
      [] opcode = 248 ->  \* LD HL,SP+e
           [Nop EXCEPT !.instruction_type = "Ldhl",
                       !.source = Mode("Sp"), !.value = operand]
      [] opcode = 249 ->  \* LD SP,HL
           [Nop EXCEPT !.instruction_type = "LdSp",
                       !.source = Mode("Hl")]
      [] opcode = 251 -> [Nop EXCEPT !.instruction_type = "Ei"]  \* 0xFB

\* The byte at pc + 1 and the state after reading it
ImmediateByte(s) == ReadByte(s, LiteralIndirect(Wrap16(s.cpu.pc + 1)))

\* The word at pc + 1 and the state after reading it
ImmediateWord(s) == ReadWord(s, LiteralIndirect(Wrap16(s.cpu.pc + 1)))

\* The operand the arm reads: <<operand, s'>>
Operand(s, opcode) ==
    CASE OperandBytes(opcode) = 0 -> <<0, s>>
      [] OperandBytes(opcode) = 1 -> ImmediateByte(s)
      [] OperandBytes(opcode) = 2 -> ImmediateWord(s)

\* The match of decode on the opcode: <<instruction, s'>>; pc moves past the
\* opcode and its operand.
DecodeOpcode(s, opcode) ==
    IF opcode \notin ModelledOpcodes THEN <<Nop, [s EXCEPT !.obs.modelled = FALSE]>>
    ELSE Bind(Operand(s, opcode),
              LAMBDA operand, s1 : <<InstructionOf(opcode, operand),
                                     AdvancePc(s1, 1 + OperandBytes(opcode))>>)

\* Cpu::decode: the opcode is read at pc, then matched.
Decode(s) ==
    Bind(ReadByte(s, LiteralIndirect(s.cpu.pc)),
         LAMBDA opcode, s1 :
             DecodeOpcode([s1 EXCEPT !.obs.opcode = opcode,
                                     !.obs.fetch_at = s.cpu.pc], opcode))

---------------------------------------------------------------------------
(* Cpu::execute and the execute_* methods.                                 *)

\* sp -= 1; write_byte(msb, sp); sp -= 1; write_byte(lsb, sp)
PushWord(s, value) ==
    WriteByte([WriteByte([s EXCEPT !.cpu.sp = Wrap16(@ + 65535)], Msb(value),
                         LiteralIndirect(Wrap16(s.cpu.sp + 65535)))
                  EXCEPT !.cpu.sp = Wrap16(@ + 65535)],
              Lsb(value), LiteralIndirect(Wrap16(s.cpu.sp + 65534)))

\* read_byte(sp); sp += 1; read_byte(sp); sp += 1: <<value, s'>>
PopWord(s) ==
    Bind(ReadByte(s, LiteralIndirect(s.cpu.sp)),
         LAMBDA lsb, s1 :
             Bind(ReadByte([s1 EXCEPT !.cpu.sp = Wrap16(@ + 1)],
                           LiteralIndirect(Wrap16(s.cpu.sp + 1))),
                  LAMBDA msb, s2 :
                      <<msb * 256 + lsb, [s2 EXCEPT !.cpu.sp = Wrap16(@ + 1)]>>))

HandleInterrupt_NoWaitStates(s, bit_idx) ==
    [DelayMCycle(PushWord(s, s.cpu.pc)) EXCEPT !.cpu.pc = 64 + 8 * bit_idx]

\* Cpu::handle_interrupt: two wait states, the push of pc, one more M-cycle,
\* then the vector 0x40, 0x48, 0x50, 0x58, 0x60 of the source.
HandleInterrupt(s, bit_idx) ==
    [DelayMCycle(PushWord(DelayMCycle(DelayMCycle(s)), s.cpu.pc))
        EXCEPT !.cpu.pc = 64 + 8 * bit_idx]

ExecuteAddHl(s, source) ==
    Bind(<<ReadWord(s, source)[1], ReadWord(s, Mode("Hl"))[1]>>,
         LAMBDA source_value, destination_value :
             SetFlag(SetFlag(SetFlag(
                 WriteWord(DelayMCycle(s), Wrap16(destination_value + source_value),
                           Mode("Hl")),
                 6, FALSE),
                 5, (source_value % 4096) + (destination_value % 4096) >= 4096),
                 4, destination_value + source_value >= 65536))

ExecuteAddSp(s, value) ==
    SetFlags(WriteWord(DelayMCycle(DelayMCycle(s)),
                       Wrap16(s.cpu.sp + SignExtend(value)), Mode("Sp")),
             FALSE, FALSE,
             (value % 16) + (s.cpu.sp % 16) >= 16,
             value + Lsb(s.cpu.sp) >= 256)

ExecuteCall(s, address, condition) ==
    Bind(ReadWord(s, address),
         LAMBDA call_address, s1 :
             IF ShouldBranch(s1, condition)
             THEN [PushWord(DelayMCycle(s1), s1.cpu.pc) EXCEPT !.cpu.pc = call_address]
             ELSE s1)

ExecuteIncWord(s, target) ==
    Bind(ReadWord(s, target),
         LAMBDA old_value, s1 : WriteWord(DelayMCycle(s1), Wrap16(old_value + 1), target))

ExecuteDecWord(s, target) ==
    Bind(ReadWord(s, target),
         LAMBDA old_value, s1 :
             WriteWord(DelayMCycle(s1), Wrap16(old_value + 65535), target))

ExecuteCcf(s) == SetFlag(SetFlag(SetFlag(s, 6, FALSE), 5, FALSE), 4, ~GetCarryFlag(s))

ExecuteScf(s) == SetFlag(SetFlag(SetFlag(s, 6, FALSE), 5, FALSE), 4, TRUE)

ExecuteDi(s) == [s EXCEPT !.bus.interrupt_master_enable = FALSE]

ExecuteEi(s) == [s EXCEPT !.bus.interrupt_master_enable = TRUE]

ExecuteHalt(s) == [s EXCEPT !.cpu.halted = TRUE]

ExecuteLdByte(s, source, destination) ==
    Bind(ReadByte(s, source), LAMBDA value, s1 : WriteByte(s1, value, destination))

ExecuteLdSp(s, source) ==
    Bind(ReadWord(s, source),
         LAMBDA value, s1 : WriteWord(DelayMCycle(s1), value, Mode("Sp")))

ExecuteLdWord(s, source, destination) ==
    Bind(ReadWord(s, source), LAMBDA value, s1 : WriteWord(s1, value, destination))

ExecuteLdhl(s, source, offset) ==
    Bind(ReadWord(s, source),
         LAMBDA source_value, s1 :
             SetFlags(WriteWord(DelayMCycle(s1),
                                Wrap16(source_value + SignExtend(offset)), Mode("Hl")),
                      FALSE, FALSE,
                      (source_value % 16) + (offset % 16) >= 16,
                      Lsb(source_value) + offset >= 256))

ExecuteJp(s, target, condition) ==
    Bind(ReadWord(s, target),
         LAMBDA new_address, s1 :
             IF ShouldBranch(s1, condition)
             THEN [DelayMCycle(s1) EXCEPT !.cpu.pc = new_address]
             ELSE s1)

ExecuteJpHl(s) == [s EXCEPT !.cpu.pc = s.cpu.hl]

ExecuteJr(s, unsigned_offset, condition) ==
    Bind(ReadByte(s, unsigned_offset),
         LAMBDA signed_offset, s1 :
             IF ShouldBranch(s1, condition)
             THEN [DelayMCycle(s1) EXCEPT
                      !.cpu.pc = Wrap16(@ + SignExtend(signed_offset))]
             ELSE s1)

ExecutePop(s, target) ==
    Bind(PopWord(s), LAMBDA value, s1 : WriteWord(s1, value, target))

ExecutePush(s, source) ==
    Bind(ReadWord(s, source), LAMBDA value, s1 : PushWord(DelayMCycle(s1), value))

\* The return proper: pc is popped, then one internal M-cycle.
PopPc(s) ==
    Bind(PopWord(s),
         LAMBDA return_address, s1 : [DelayMCycle(s1) EXCEPT !.cpu.pc = return_address])

ExecuteRet_NoInternalCycle(s, condition) ==
    IF ShouldBranch(s, condition)
    THEN Bind(PopWord(s), LAMBDA return_address, s1 : [s1 EXCEPT !.cpu.pc = return_address])
    ELSE s

\* Cpu::execute_ret: the conditional form spends one M-cycle on the decision.
ExecuteRet(s, condition) ==
    With(IF condition = "Unconditional" THEN s ELSE DelayMCycle(s),
         LAMBDA s1 : IF ShouldBranch(s1, condition) THEN PopPc(s1) ELSE s1)

ExecuteReti(s) == [PopPc(s) EXCEPT !.bus.interrupt_master_enable = TRUE]

ExecuteRst(s, offset) ==
    [PushWord(DelayMCycle(s), s.cpu.pc) EXCEPT !.cpu.pc = offset]

ExecuteStop_AlwaysStops(s) == [s EXCEPT !.cpu.stopped = TRUE]

\* Cpu::execute_stop: stopped unless the bus consumed the STOP as a speed switch
ExecuteStop(s) ==
    Bind(MaybeHandleStop(s), LAMBDA handled, s1 : [s1 EXCEPT !.cpu.stopped = ~handled])

\* Cpu::execute: the match on the instruction type
Execute(s, instruction) ==
    CASE instruction.instruction_type = "Nop" -> s
      [] instruction.instruction_type = "AddHl" -> ExecuteAddHl(s, instruction.source)
      [] instruction.instruction_type = "AddSp" -> ExecuteAddSp(s, instruction.value)
      [] instruction.instruction_type = "Call" ->
             ExecuteCall(s, instruction.target, instruction.condition)
      [] instruction.instruction_type = "Ccf" -> ExecuteCcf(s)
      [] instruction.instruction_type = "DecWord" -> ExecuteDecWord(s, instruction.target)
      [] instruction.instruction_type = "Di" -> ExecuteDi(s)
      [] instruction.instruction_type = "Ei" -> ExecuteEi(s)
      [] instruction.instruction_type = "Halt" -> ExecuteHalt(s)
      [] instruction.instruction_type = "IncWord" -> ExecuteIncWord(s, instruction.target)
      [] instruction.instruction_type = "Jp" ->
             ExecuteJp(s, instruction.target, instruction.condition)
      [] instruction.instruction_type = "JpHl" -> ExecuteJpHl(s)
      [] instruction.instruction_type = "Jr" ->
             ExecuteJr(s, instruction.source, instruction.condition)
      [] instruction.instruction_type = "LdByte" ->
             ExecuteLdByte(s, instruction.source, instruction.destination)
      [] instruction.instruction_type = "LdSp" -> ExecuteLdSp(s, instruction.source)
      [] instruction.instruction_type = "LdWord" ->
             ExecuteLdWord(s, instruction.source, instruction.destination)
      [] instruction.instruction_type = "Ldhl" ->
             ExecuteLdhl(s, instruction.source, instruction.value)
      [] instruction.instruction_type = "Pop" -> ExecutePop(s, instruction.target)
      [] instruction.instruction_type = "Push" -> ExecutePush(s, instruction.source)
      [] instruction.instruction_type = "Ret" -> ExecuteRet(s, instruction.condition)
      [] instruction.instruction_type = "Reti" -> ExecuteReti(s)
      [] instruction.instruction_type = "Rst" -> ExecuteRst(s, instruction.value)
      [] instruction.instruction_type = "Scf" -> ExecuteScf(s)
      [] instruction.instruction_type = "Stop" -> ExecuteStop(s)

---------------------------------------------------------------------------
(* The byte arithmetic behind decimal adjustment: Cpu::execute_add_byte,    *)
(* execute_adc, execute_sub, execute_sbc and execute_daa.                   *)

\* get_subtract_flag, get_half_carry_flag
GetSubtractFlag(s) == Bit(s.cpu.af, 6) = 1
GetHalfCarryFlag(s) == Bit(s.cpu.af, 5) = 1

\* u8::wrapping_add, u8::wrapping_sub
WrappingAdd(a, b) == (a + b) % 256
WrappingSub(a, b) == (a + 256 - b) % 256

\* Cpu::execute_add_byte
ExecuteAddByte(s, source, destination) ==
    Bind(<<ReadByte(s, source)[1], ReadByte(s, destination)[1]>>,
         LAMBDA source_value, destination_value :
             SetFlags(WriteByte(s, WrappingAdd(destination_value, source_value),
                                destination),
                      WrappingAdd(destination_value, source_value) = 0,
                      FALSE,
                      (source_value % 16) + (destination_value % 16) >= 16,
                      destination_value + source_value >= 256))

\* Cpu::execute_adc: with the carry flag set the sum takes one more, and the
\* carry is that of either addition.
ExecuteAdc(s, source, destination) ==
    Bind(<<ReadByte(s, source)[1], ReadByte(s, destination)[1]>>,
         LAMBDA source_value, destination_value :
             IF GetCarryFlag(s)
             THEN SetFlags(WriteByte(s, WrappingAdd(WrappingAdd(source_value,
                                                                destination_value), 1),
                                     destination),
                           WrappingAdd(WrappingAdd(source_value, destination_value), 1) = 0,
                           FALSE,
                           (source_value % 16) + (destination_value % 16) + 1 >= 16,
                           \/ source_value + destination_value >= 256
                           \/ WrappingAdd(source_value, destination_value) + 1 >= 256)
             ELSE SetFlags(WriteByte(s, WrappingAdd(source_value, destination_value),
                                     destination),
                           WrappingAdd(source_value, destination_value) = 0,
                           FALSE,
                           (source_value % 16) + (destination_value % 16) >= 16,
                           source_value + destination_value >= 256))

\* Cpu::execute_sub
ExecuteSub(s, source) ==
    Bind(<<ReadByte(s, source)[1], ReadByte(s, Mode("Accumulator"))[1]>>,
         LAMBDA source_value, destination_value :
             SetFlags(WriteByte(s, WrappingSub(destination_value, source_value),
                                Mode("Accumulator")),
                      WrappingSub(destination_value, source_value) = 0,
                      TRUE,
                      (destination_value % 16) < (source_value % 16),
                      destination_value < source_value))

\* Cpu::execute_sbc: with the carry flag set the difference gives one more, and
\* the borrow is that of either subtraction.
ExecuteSbc(s, source, destination) ==
    Bind(<<ReadByte(s, source)[1], ReadByte(s, destination)[1]>>,
         LAMBDA source_value, destination_value :
             IF GetCarryFlag(s)
             THEN SetFlags(WriteByte(s, WrappingSub(WrappingSub(destination_value,
                                                                source_value), 1),
                                     destination),
                           WrappingSub(WrappingSub(destination_value, source_value), 1) = 0,
                           TRUE,
                           (destination_value % 16) < (source_value % 16) + 1,
                           \/ destination_value < source_value
                           \/ WrappingSub(destination_value, source_value) < 1)
             ELSE SetFlags(WriteByte(s, WrappingSub(destination_value, source_value),
                                     destination),
                           WrappingSub(destination_value, source_value) = 0,
                           TRUE,
                           (destination_value % 16) < (source_value % 16),
                           destination_value < source_value))

\* The subtract arm of execute_daa: 0x60 off after a borrow, 0x06 off after a
\* half borrow.
DaaSubtract(s, source_value) ==
    WrappingSub(IF GetCarryFlag(s) THEN WrappingSub(source_value, 96) ELSE source_value,
                IF GetHalfCarryFlag(s) THEN 6 ELSE 0)

\* Whether the add arm of execute_daa corrects the high digit, and with it sets
\* the carry flag.
DaaCarries(s, source_value) == GetCarryFlag(s) \/ source_value > 153

\* The add arm of execute_daa
DaaAdd_NoLowDigitTest(s, source_value) ==
    WrappingAdd(IF DaaCarries(s, source_value) THEN WrappingAdd(source_value, 96)
                                               ELSE source_value,
                IF GetHalfCarryFlag(s) THEN 6 ELSE 0)

DaaAdd(s, source_value) ==
    WrappingAdd(IF DaaCarries(s, source_value) THEN WrappingAdd(source_value, 96)
                                               ELSE source_value,
                IF GetHalfCarryFlag(s) \/ (source_value % 16) > 9 THEN 6 ELSE 0)

\* Cpu::execute_daa: the subtract flag is left alone, the carry flag is only
\* ever set.
ExecuteDaa(s) ==
    Bind(<<ReadByte(s, Mode("Accumulator"))[1],
           IF GetSubtractFlag(s) THEN GetCarryFlag(s)
           ELSE DaaCarries(s, ReadByte(s, Mode("Accumulator"))[1])>>,
         LAMBDA source_value, carry :
             With(IF GetSubtractFlag(s) THEN DaaSubtract(s, source_value)
                                        ELSE DaaAdd(s, source_value),
                  LAMBDA result_value :
                      SetFlag(SetFlag(SetFlag(
                          WriteByte(s, result_value, Mode("Accumulator")),
                          4, carry), 7, result_value = 0), 5, FALSE)))
---------------------------------------------------------------------------
(* Cpu::fetch_decode_execute and Cpu::set_button_pressed.                  *)

\* The system state of the variables, with the cartridge bytes at pc.
Sys(bytes) ==
    [cpu |-> cpu, bus |-> bus, timer |-> timer, joypad |-> joypad, ppu |-> ppu,
     obs |-> obs, cartridge |-> [base |-> cpu.pc, bytes |-> bytes]]

\* The interrupt sources that hold a latched request.
Latched(s) ==
    {b \in 0 .. 4 : \/ b = 0 /\ s.ppu.vblank_interrupt_waiting
                    \/ b = 1 /\ s.ppu.stat_interrupt_waiting
                    \/ b = 2 /\ s.timer.interrupt_waiting
                    \/ b = 4 /\ s.joypad.interrupt_waiting}

\* The bytes at sp and sp + 1 when the stack is in high RAM.
StackTop(s) ==
    IF s.cpu.sp >= 65408 /\ s.cpu.sp <= 65533
    THEN <<s.bus.high_ram[s.cpu.sp - 65408], s.bus.high_ram[s.cpu.sp - 65407]>>
    ELSE <<0, 0>>

Pre(s) ==
    [af |-> s.cpu.af, sp |-> s.cpu.sp, pc |-> s.cpu.pc,
     halted |-> s.cpu.halted, stopped |-> s.cpu.stopped,
     interrupt_enable |-> s.bus.interrupt_enable,
     interrupt_flag |-> s.bus.interrupt_flag,
     interrupt_master_enable |-> s.bus.interrupt_master_enable,
     latched |-> Latched(s),
     prepare_speed_switch |-> s.bus.prepare_speed_switch,
     current_speed |-> s.bus.current_speed,
     stack |-> StackTop(s),
     halt_at |-> s.obs.halt_at]

\* The observations start afresh with every call.
Observe(s, kind) ==
    [s EXCEPT !.obs = [ObsNone EXCEPT !.kind = kind,
                                      !.steps = s.obs.steps,
                                      !.presses = s.obs.presses,
                                      !.halt_at = s.obs.halt_at,
                                      !.prev_woke = s.obs.woke,
                                      !.pre = Pre(s)]]

\* The branch of fetch_decode_execute taken when the CPU is halted.
HaltedTick(s) ==
    With(DelayMCycle(s),
         LAMBDA s1 : IF HaltFinished(s1) THEN [s1 EXCEPT !.cpu.halted = FALSE] ELSE s1)

\* What poll_interrupt returned and the IF it left.
Polled(s, bit_idx) ==
    [s EXCEPT !.obs.poll_result = bit_idx, !.obs.poll_if = s.bus.interrupt_flag]

\* The branch taken when the CPU runs: dispatch an interrupt or an instruction.
RunningStep(s) ==
    Bind(PollInterrupt(s),
         LAMBDA bit_idx, s1 :
             IF bit_idx # -1
             THEN [HandleInterrupt(Polled(s1, bit_idx), bit_idx) EXCEPT
                      !.obs.kind = "interrupt"]
             ELSE Bind(Decode(Polled(s1, bit_idx)),
                       LAMBDA instruction, s2 :
                           [Execute(s2, instruction) EXCEPT !.obs.kind = "instruction"]))

\* The three branches of fetch_decode_execute: stopped, halted, running.
Dispatch(s) ==
    IF s.cpu.stopped THEN DelayMCycle(s)
    ELSE IF s.cpu.halted THEN HaltedTick(s)
    ELSE RunningStep(s)

\* The end of fetch_decode_execute on the state s1 its branch left, s being
\* the state at the call: m_cycles_completed is taken and reset, and the
\* returned T-cycle count is 4 or 2 per M-cycle by the current speed.
Returned(s, s1) ==
    [s1 EXCEPT
        !.cpu.m_cycles_completed = 0,
        !.obs.m_cycles = s1.cpu.m_cycles_completed,
        !.obs.ret = IF s1.bus.current_speed = "Normal"
                    THEN (s1.cpu.m_cycles_completed * 4) % 256
                    ELSE (s1.cpu.m_cycles_completed * 2) % 256,
        !.obs.steps = @ + 1,
        !.obs.halt_at = IF s1.cpu.halted /\ ~s.cpu.halted
                        THEN s1.obs.fetch_at ELSE @,
        !.obs.woke = s.cpu.halted /\ ~s1.cpu.halted]

\* Cpu::fetch_decode_execute; the returned value is obs.ret.
FetchDecodeExecute(s) ==
    Returned(s, Dispatch(Observe(s, IF s.cpu.stopped THEN "stopped"
                                    ELSE IF s.cpu.halted THEN "halted"
                                    ELSE "running")))

\* Cpu::set_button_pressed
SetButtonPressed(s, button, pressed) ==
    LET s0 == Observe(s, IF pressed THEN "press" ELSE "release")
        s1 == IF pressed THEN [s0 EXCEPT !.cpu.stopped = FALSE] ELSE s0
    IN  [s1 EXCEPT !.joypad = JoypadSetPressed(@, button, pressed),
                   !.obs.presses = @ + 1,
                   !.obs.woke = s.obs.woke,
                   !.obs.prev_woke = s.obs.prev_woke]

\* The variables take the state s, when s stayed within the modelled addresses.
Commit(s) ==
    /\ s.obs.modelled
    /\ cpu' = s.cpu
    /\ bus' = s.bus
    /\ timer' = s.timer
    /\ joypad' = s.joypad
    /\ ppu' = s.ppu
    /\ obs' = s.obs
    /\ UNCHANGED <<tobs, pobs, cartridge, dobs>>

---------------------------------------------------------------------------
(* The CPU driven by its host: fetch_decode_execute on cartridge bytes the *)
(* model chooses, and set_button_pressed.                                  *)

MaxCpuSteps == 3
MaxStopSteps == 3
MaxPresses == 1
MaxInstrSteps == 2

\* The timer idle, and the timer one M-cycle before the reload that follows an
\* overflow.
TimerStates ==
    {TimerDefault,
     [TimerDefault EXCEPT !.timer_control = 5, !.tick_counter = 16,
                          !.timer_modulo = 128, !.timer_counter_reload_delay = 4]}

\* The LCD off, and the LCD on four dots before line 144 begins.
PpuStates ==
    {PpuDefault,
     [PpuDefault EXCEPT !.lcd_control = 128, !.lcd_y = 143, !.dot = 452]}

\* Programs of the control specification: NOP, STOP, HALT, DI, EI, and
\* LDH (n),A for IF, IE, KEY1 and TAC.
ControlPrograms ==
    {<<0, 0, 0>>, <<16, 0, 0>>, <<118, 0, 0>>, <<243, 0, 0>>, <<251, 0, 0>>,
     <<224, 15, 0>>, <<224, 255, 0>>, <<224, 77, 0>>, <<224, 7, 0>>}

\* Programs of the STOP specification: NOP, STOP and LDH (0x4D),A.
StopPrograms == {<<0, 0, 0>>, <<16, 0, 0>>, <<224, 77, 0>>}

\* The state a cartridge program runs in: pc in the cartridge, the stack at the
\* top of high RAM, the boot ROM switched off.
InitRunning(ime, ie, if, prepare, speed, af) ==
    /\ cpu = [CpuDefault EXCEPT !.pc = 336, !.sp = 65534, !.af = af]
    /\ bus = [BusDefault EXCEPT !.interrupt_master_enable = ime,
                                !.interrupt_enable = ie,
                                !.interrupt_flag = if,
                                !.prepare_speed_switch = prepare,
                                !.current_speed = speed,
                                !.boot_rom_enabled = FALSE]
    /\ joypad = JoypadDefault
    /\ obs = ObsNone
    /\ tobs = TObsNone
    /\ pobs = PObsNone
    /\ cartridge = CartridgeDefault /\ dobs = DObsNone

InitCpu ==
    /\ \E ime \in BOOLEAN, ie \in {0, 5}, if \in {0, 4, 17},
          prepare \in BOOLEAN, speed \in {"Normal", "Double"} :
          InitRunning(ime, ie, if, prepare, speed, 1280)
    /\ timer \in TimerStates
    /\ ppu \in PpuStates

\* Whether fetch_decode_execute reads the cartridge at all in this state.
Fetches ==
    /\ ~cpu.stopped
    /\ ~cpu.halted
    /\ PollInterrupt(Sys(<<>>))[1] = -1

\* One call of fetch_decode_execute.
Step(programs, max) ==
    /\ obs.steps < max
    /\ \E bytes \in IF Fetches THEN programs ELSE {<<>>} :
          Commit(FetchDecodeExecute(Sys(bytes)))

CpuStep == Step(ControlPrograms, MaxCpuSteps)

NextCpu == CpuStep

SpecCpu == InitCpu /\ [][NextCpu]_vars

InitStop ==
    /\ \E ime \in BOOLEAN, if \in {0, 4},
          prepare \in BOOLEAN, speed \in {"Normal", "Double"} :
          InitRunning(ime, 4, if, prepare, speed, 256)
    /\ timer = TimerDefault
    /\ ppu = PpuDefault

StopStep == Step(StopPrograms, MaxStopSteps)

\* One call of set_button_pressed.
ButtonEvent ==
    /\ obs.presses < MaxPresses
    /\ \E button \in Buttons, pressed \in BOOLEAN :
          Commit(SetButtonPressed(Sys(<<>>), button, pressed))

NextStop ==
    \/ StopStep
    \/ ButtonEvent

SpecStop == InitStop /\ [][NextStop]_vars

---------------------------------------------------------------------------
(* Instruction timing: one or two instructions from a state with both      *)
(* outcomes of every branch condition, and poll_interrupt on its own.      *)

\* PUSH, POP, CALL, RET, RETI, RST, JP, JR, INC/DEC rr, ADD HL,rr, LD SP,HL,
\* LD HL,SP+e, ADD SP,e, and LD A,n, SCF, CCF; nn = 0x0200.
TimingPrograms ==
    {<<op, 0, 0>> : op \in {197, 213, 229, 245, 193, 209, 225, 241, 201, 217,
                            192, 200, 208, 216, 199, 207, 215, 223, 231, 239, 247, 255,
                            3, 19, 35, 51, 11, 27, 43, 59, 9, 25, 41, 57, 249, 55, 63}}
    \cup {<<op, 0, 2>> : op \in {205, 196, 204, 212, 220, 195, 194, 202, 210, 218}}
    \cup {<<op, e, 0>> : op \in {24, 248, 232}, e \in {2, 254}}
    \cup {<<op, 2, 0>> : op \in {32, 40, 48, 56}}
    \cup {<<62, 255, 0>>}

InitInstr ==
    /\ \E ime \in BOOLEAN, if \in {0, 16}, af \in {4736, 4624},
          hl \in {4095, 65524}, stack \in {<<52, 18>>, <<255, 15>>} :
          /\ cpu = [CpuDefault EXCEPT !.pc = 336, !.sp = 65520, !.af = af,
                                      !.bc = 1, !.de = 65535, !.hl = hl]
          /\ bus = [BusDefault EXCEPT !.interrupt_master_enable = ime,
                                      !.interrupt_enable = 31,
                                      !.interrupt_flag = if,
                                      !.boot_rom_enabled = FALSE,
                                      !.high_ram[112] = stack[1],
                                      !.high_ram[113] = stack[2]]
    /\ timer = TimerDefault
    /\ ppu = PpuDefault
    /\ joypad = JoypadDefault
    /\ obs = ObsNone
    /\ tobs = TObsNone
    /\ pobs = PObsNone
    /\ cartridge = CartridgeDefault /\ dobs = DObsNone

InstrStep == Step(TimingPrograms, MaxInstrSteps)

NextInstr == InstrStep

SpecInstr == InitInstr /\ [][NextInstr]_vars

\* A state between two steps in which a CPU store has left a request latched
\* in the timer or in the PPU's STAT logic.
InitPoll ==
    /\ \E ime \in BOOLEAN, ie \in 0 .. 31, if \in 0 .. 31 :
          /\ cpu = [CpuDefault EXCEPT !.pc = 336, !.sp = 65534]
          /\ bus = [BusDefault EXCEPT !.interrupt_master_enable = ime,
                                      !.interrupt_enable = ie,
                                      !.interrupt_flag = if,
                                      !.boot_rom_enabled = FALSE]
    /\ \E waiting \in BOOLEAN : timer = [TimerDefault EXCEPT !.interrupt_waiting = waiting]
    /\ \E waiting \in BOOLEAN : ppu = [PpuDefault EXCEPT !.stat_interrupt_waiting = waiting]
    /\ joypad = JoypadDefault
    /\ obs = ObsNone
    /\ tobs = TObsNone
    /\ pobs = PObsNone
    /\ cartridge = CartridgeDefault /\ dobs = DObsNone

\* One call of Bus::poll_interrupt.
PollStep ==
    /\ obs.kind = "none"
    /\ Commit(Bind(PollInterrupt(Observe(Sys(<<>>), "poll")),
                   LAMBDA bit_idx, s1 : Polled(s1, bit_idx)))

NextPoll == PollStep

SpecPoll == InitPoll /\ [][NextPoll]_vars

---------------------------------------------------------------------------
(* Decimal arithmetic: ADD A,B, ADC A,B, SUB B or SBC A,B on two packed-BCD *)
(* bytes, then DAA.                                                         *)

\* The packed-BCD bytes: two decimal digits, the high one in the high nibble.
BcdEncode(n) == (n \div 10) * 16 + (n % 10)
BcdDecode(byte) == (byte \div 16) * 10 + (byte % 16)
BcdBytes == {BcdEncode(n) : n \in 0 .. 99}

\* F on entry: nothing set, the carry alone, all but the carry, everything.
EntryFlags == {0, 16, 224, 240}

\* Nothing observed yet: how far the pair of instructions has got, the
\* operation, its operands and the carry flag on entry, and AF before DAA.
BObsNone == [phase |-> "loaded", op |-> "none", x |-> 0, y |-> 0, c |-> 0, af |-> 0]

NotBcd == <<bus, timer, joypad, ppu, obs, tobs, pobs, cartridge>>

\* A holds x, B holds y and the carry flag holds c.
InitBcd ==
    /\ bus = BusDefault /\ timer = TimerDefault /\ joypad = JoypadDefault
    /\ ppu = PpuDefault /\ obs = ObsNone /\ tobs = TObsNone /\ pobs = PObsNone
    /\ cartridge = CartridgeDefault
    /\ \E x \in BcdBytes, y \in BcdBytes, f \in EntryFlags :
          /\ cpu = [CpuDefault EXCEPT !.af = x * 256 + f, !.bc = y * 256]
          /\ dobs = [BObsNone EXCEPT !.x = x, !.y = y, !.c = Bit(f, 4), !.af = cpu.af]

BcdCommit(s, op) ==
    /\ cpu' = s.cpu
    /\ dobs' = [dobs EXCEPT !.phase = "computed", !.op = op, !.af = s.cpu.af]
    /\ UNCHANGED NotBcd

\* ADD A,B
BcdAdd ==
    /\ dobs.phase = "loaded"
    /\ BcdCommit(ExecuteAddByte(Sys(<<>>), Mode("B"), Mode("Accumulator")), "ADD")

\* ADC A,B
BcdAdc ==
    /\ dobs.phase = "loaded"
    /\ BcdCommit(ExecuteAdc(Sys(<<>>), Mode("B"), Mode("Accumulator")), "ADC")

\* SUB B
BcdSub ==
    /\ dobs.phase = "loaded"
    /\ BcdCommit(ExecuteSub(Sys(<<>>), Mode("B")), "SUB")

\* SBC A,B
BcdSbc ==
    /\ dobs.phase = "loaded"
    /\ BcdCommit(ExecuteSbc(Sys(<<>>), Mode("B"), Mode("Accumulator")), "SBC")

\* DAA
BcdDaa ==
    /\ dobs.phase = "computed"
    /\ cpu' = ExecuteDaa(Sys(<<>>)).cpu
    /\ dobs' = [dobs EXCEPT !.phase = "adjusted"]
    /\ UNCHANGED NotBcd

NextBcd == BcdAdd \/ BcdAdc \/ BcdSub \/ BcdSbc \/ BcdDaa

SpecBcd == InitBcd /\ [][NextBcd]_vars
---------------------------------------------------------------------------
(* Claims about the CPU stepper.                                           *)

\* The last call was a fetch_decode_execute.
IsStep == obs.kind \in {"stopped", "halted", "interrupt", "instruction"}

\* The lowest bit that is enabled in ie and requested in if or by a latched source.
LowestPending(ie, if, latched) ==
    LET pending == {b \in 0 .. 4 : Bit(ie, b) = 1 /\ (Bit(if, b) = 1 \/ b \in latched)}
    IN  CHOOSE b \in pending : \A c \in pending : b <= c

\* What C1 says of a step that began with IME set and (IE & IF) non-zero.
Dispatched ==
    LET i == LowestPending(obs.pre.interrupt_enable, obs.pre.interrupt_flag,
                           obs.pre.latched)
    IN  /\ obs.kind = "interrupt"
        /\ obs.fetch_at = -1
        /\ obs.poll_result = i
        /\ Bit(obs.poll_if, i) = 0
        /\ ~bus.interrupt_master_enable
        /\ obs.m_cycles = 5
        /\ obs.writes = << <<obs.pre.sp - 1, obs.pre.pc \div 256, 3>>,
                           <<obs.pre.sp - 2, obs.pre.pc % 256, 4>> >>
        /\ bus.high_ram[obs.pre.sp - 1 - 65408] = obs.pre.pc \div 256
        /\ bus.high_ram[obs.pre.sp - 2 - 65408] = obs.pre.pc % 256
        /\ cpu.sp = obs.pre.sp - 2
        /\ cpu.pc = 64 + 8 * i

\* C1 as stated: every step that begins with IME set and (IE & IF & 0x1F)
\* non-zero dispatches the lowest pending interrupt.
C1_Claim ==
    /\ IsStep
    /\ obs.pre.interrupt_master_enable
    /\ BitAnd(obs.pre.interrupt_enable, obs.pre.interrupt_flag) % 32 # 0
    => Dispatched

\* C1 amended: a step that begins with the CPU neither stopped nor halted, IME
\* set and (IE & IF & 0x1F) non-zero fetches nothing and dispatches: the lowest
\* pending bit i is cleared in IF by the poll, IME is cleared, five M-cycles
\* elapse with the two bytes of the old PC written in the third and fourth (high
\* byte at SP-1, low byte at SP-2), SP drops by 2 and PC becomes 0x40 + 8*i.
C1_DispatchWhenRunning ==
    /\ IsStep
    /\ ~obs.pre.stopped
    /\ ~obs.pre.halted
    /\ obs.pre.interrupt_master_enable
    /\ BitAnd(obs.pre.interrupt_enable, obs.pre.interrupt_flag) % 32 # 0
    => Dispatched

\* C1's case: a running CPU with IME set, timer and joypad requested and timer
\* enabled has dispatched the timer interrupt to 0x50.
C1_Witness ==
    /\ obs.kind = "interrupt"
    /\ obs.pre.interrupt_master_enable
    /\ obs.pre.interrupt_flag = 4
    /\ obs.pre.interrupt_enable = 5
    /\ obs.poll_result = 2
    /\ cpu.pc = 80
    /\ cpu.sp = 65532
    /\ bus.high_ram[125] = 1 /\ bus.high_ram[124] = 80

\* C3: a step of a halted CPU takes one M-cycle, fetches nothing, leaves PC and
\* SP alone, writes nothing and clears no IF bit; it ends HALT exactly when
\* (IE & IF) is non-zero after its M-cycle, whatever IME is; and the step that
\* follows an ended HALT with IME clear finds the request still pending and
\* executes the instruction at the address after the HALT opcode.
C3_Halt ==
    /\ obs.kind = "halted" =>
          /\ obs.m_cycles = 1
          /\ obs.fetch_at = -1 /\ obs.opcode = -1
          /\ obs.poll_result = -1
          /\ cpu.pc = obs.pre.pc /\ cpu.sp = obs.pre.sp
          /\ obs.writes = <<>>
          /\ bus.interrupt_master_enable = obs.pre.interrupt_master_enable
          /\ \A b \in 0 .. 4 : Bit(obs.pre.interrupt_flag, b) = 1
                                  => Bit(bus.interrupt_flag, b) = 1
          /\ cpu.halted <=> BitAnd(bus.interrupt_enable, bus.interrupt_flag) = 0
    /\ IsStep /\ obs.prev_woke /\ ~obs.pre.interrupt_master_enable =>
          /\ obs.kind = "instruction"
          /\ obs.fetch_at = obs.pre.halt_at + 1
          /\ BitAnd(obs.pre.interrupt_enable, obs.pre.interrupt_flag) # 0
          /\ obs.poll_result = -1

\* C3's case: HALT ended with IME clear and the next step executed the NOP
\* placed after it.
C3_Witness ==
    /\ obs.kind = "instruction"
    /\ obs.prev_woke
    /\ ~obs.pre.interrupt_master_enable
    /\ obs.opcode = 0
    /\ obs.fetch_at = 337
    /\ cpu.pc = 338
    /\ BitAnd(bus.interrupt_enable, bus.interrupt_flag) # 0

\* C4: STOP with the prepare bit set toggles the speed, clears the bit and
\* leaves the CPU running; STOP with the bit clear sets stopped and keeps the
\* speed; every step of a stopped CPU idles one M-cycle, fetches nothing, keeps
\* PC and stays stopped; a call of set_button_pressed with pressed = true clears
\* stopped, one with pressed = false leaves it as it was.
C4_Stop ==
    /\ obs.kind = "instruction" /\ obs.opcode = 16 /\ obs.pre.prepare_speed_switch =>
          /\ bus.current_speed # obs.pre.current_speed
          /\ ~bus.prepare_speed_switch
          /\ ~cpu.stopped
    /\ obs.kind = "instruction" /\ obs.opcode = 16 /\ ~obs.pre.prepare_speed_switch =>
          /\ cpu.stopped
          /\ bus.current_speed = obs.pre.current_speed
    /\ IsStep /\ obs.pre.stopped =>
          /\ obs.kind = "stopped"
          /\ obs.m_cycles = 1
          /\ obs.fetch_at = -1
          /\ obs.writes = <<>>
          /\ cpu.pc = obs.pre.pc
          /\ cpu.stopped
    /\ obs.kind = "press" => ~cpu.stopped /\ cpu.pc = obs.pre.pc
    /\ obs.kind = "release" => cpu.stopped = obs.pre.stopped /\ cpu.pc = obs.pre.pc

\* C4's case: STOP stopped the CPU, a step idled, and a button press has just
\* cleared stopped.
C4_Witness ==
    /\ obs.kind = "press"
    /\ obs.pre.stopped
    /\ ~cpu.stopped
    /\ obs.steps = 2
    /\ cpu.pc = 337

\* C5 as stated: the value returned by fetch_decode_execute is the number of
\* T-cycles by which the bus advanced the PPU and APU during the call.
C5_Claim == IsStep => obs.ret = obs.ppu_steps

---------------------------------------------------------------------------
(* Claims about poll_interrupt, instruction timing and the flag register.  *)

\* The IF bits poll_interrupt has before it after its refresh: those of the
\* register and those latched in a source.
SeenByPoll == {b \in 0 .. 4 : Bit(obs.pre.interrupt_flag, b) = 1 \/ b \in obs.pre.latched}

FlagBits == {b \in 0 .. 4 : Bit(bus.interrupt_flag, b) = 1}

\* C2: poll_interrupt returns source r only if IME was set and bit r is set in
\* IE and in IF (the register as refreshed by the call from the latched
\* sources); no lower bit is set in both; exactly bit r is cleared in IF and IME
\* is cleared.  When it returns none, IME is unchanged and no IF bit is cleared.
C2_Poll ==
    obs.kind = "poll" =>
       /\ obs.poll_result # -1 =>
             /\ obs.pre.interrupt_master_enable
             /\ Bit(obs.pre.interrupt_enable, obs.poll_result) = 1
             /\ obs.poll_result \in SeenByPoll
             /\ \A j \in 0 .. obs.poll_result - 1 :
                   ~(Bit(obs.pre.interrupt_enable, j) = 1 /\ j \in SeenByPoll)
             /\ FlagBits = SeenByPoll \ {obs.poll_result}
             /\ ~bus.interrupt_master_enable
       /\ obs.poll_result = -1 =>
             /\ bus.interrupt_master_enable = obs.pre.interrupt_master_enable
             /\ FlagBits = SeenByPoll
       /\ bus.interrupt_enable = obs.pre.interrupt_enable

\* C2's case: with timer and joypad requested and LCD, timer, serial and joypad
\* enabled, the poll returned the timer and cleared only its bit.
C2_Witness ==
    /\ obs.kind = "poll"
    /\ obs.pre.interrupt_master_enable
    /\ obs.pre.interrupt_enable = 30
    /\ obs.pre.interrupt_flag = 21
    /\ obs.poll_result = 2
    /\ bus.interrupt_flag = 17
    /\ ~bus.interrupt_master_enable

\* Whether the branch condition in bits 3-4 of the opcode held when the
\* instruction began.
Taken ==
    LET z == Bit(obs.pre.af, 7) = 1
        c == Bit(obs.pre.af, 4) = 1
    IN  CASE (obs.opcode \div 8) % 4 = 0 -> ~z
          [] (obs.opcode \div 8) % 4 = 1 -> z
          [] (obs.opcode \div 8) % 4 = 2 -> ~c
          [] (obs.opcode \div 8) % 4 = 3 -> c

\* C6: the M-cycles of an instruction are PUSH 4, POP 3, CALL 6, CALL cc 6/3,
\* RET 4, RETI 4, RET cc 5/2, RST 4, JP 4, JP cc 4/3, JR 3, JR cc 3/2,
\* INC/DEC rr 2, ADD HL,rr 2, LD SP,HL 2, LD HL,SP+e 3, ADD SP,e 4.
C6_Cycles ==
    obs.kind = "instruction" =>
       /\ obs.opcode \in {197, 213, 229, 245} => obs.m_cycles = 4
       /\ obs.opcode \in {193, 209, 225, 241} => obs.m_cycles = 3
       /\ obs.opcode = 205 => obs.m_cycles = 6
       /\ obs.opcode \in {196, 204, 212, 220} => obs.m_cycles = IF Taken THEN 6 ELSE 3
       /\ obs.opcode = 201 => obs.m_cycles = 4
       /\ obs.opcode = 217 => obs.m_cycles = 4
       /\ obs.opcode \in {192, 200, 208, 216} => obs.m_cycles = IF Taken THEN 5 ELSE 2
       /\ obs.opcode \in {199, 207, 215, 223, 231, 239, 247, 255} => obs.m_cycles = 4
       /\ obs.opcode = 195 => obs.m_cycles = 4
       /\ obs.opcode \in {194, 202, 210, 218} => obs.m_cycles = IF Taken THEN 4 ELSE 3
       /\ obs.opcode = 24 => obs.m_cycles = 3
       /\ obs.opcode \in {32, 40, 48, 56} => obs.m_cycles = IF Taken THEN 3 ELSE 2
       /\ obs.opcode \in {3, 19, 35, 51, 11, 27, 43, 59} => obs.m_cycles = 2
       /\ obs.opcode \in {9, 25, 41, 57} => obs.m_cycles = 2
       /\ obs.opcode = 249 => obs.m_cycles = 2
       /\ obs.opcode = 248 => obs.m_cycles = 3
       /\ obs.opcode = 232 => obs.m_cycles = 4

\* C6's case: RET C with the carry set returned to the popped address in five
\* M-cycles.
C6_Witness ==
    /\ obs.kind = "instruction"
    /\ obs.opcode = 216
    /\ Bit(obs.pre.af, 4) = 1
    /\ obs.m_cycles = 5
    /\ cpu.pc = obs.pre.stack[2] * 256 + obs.pre.stack[1]
    /\ cpu.sp = obs.pre.sp + 2

\* C7: the low four bits of AF are zero in every state, whatever instruction or
\* interrupt dispatch led to it.
C7_LowNibbleZero == cpu.af % 16 = 0

\* C7's case: POP AF has popped a byte with a non-zero low nibble into F.
C7_Witness ==
    /\ obs.kind = "instruction"
    /\ obs.opcode = 241
    /\ obs.pre.stack = <<255, 15>>
    /\ cpu.af = 4080

---------------------------------------------------------------------------
(* Decimal adjustment, checked on SpecBcd.                                  *)

\* The carry into the operation: the carry flag on entry for ADC and SBC, none
\* for ADD and SUB.
CarryIn == IF dobs.op \in {"ADC", "SBC"} THEN dobs.c ELSE 0

\* x + y + c for an addition, x - y - c for a subtraction, in decimal
DecimalResult ==
    IF dobs.op \in {"ADD", "ADC"}
    THEN BcdDecode(dobs.x) + BcdDecode(dobs.y) + CarryIn
    ELSE BcdDecode(dobs.x) - BcdDecode(dobs.y) - CarryIn

\* C28: ADD or ADC on packed-BCD bytes followed by DAA leaves A the packed-BCD
\* encoding of (x + y + c) mod 100 with C set iff the sum reaches 100; SUB or
\* SBC followed by DAA leaves A the encoding of (x - y - c) mod 100 with C set
\* iff the difference is negative.  Either way Z is set iff A is 0, H is clear
\* and N is as it was before DAA.
C28_DecimalAdjust ==
    dobs.phase = "adjusted" =>
        /\ Msb(cpu.af) = BcdEncode(DecimalResult % 100)
        /\ (Bit(cpu.af, 4) = 1) <=>
               IF dobs.op \in {"ADD", "ADC"} THEN DecimalResult >= 100
                                             ELSE DecimalResult < 0
        /\ (Bit(cpu.af, 7) = 1) <=> (Msb(cpu.af) = 0)
        /\ Bit(cpu.af, 5) = 0
        /\ Bit(cpu.af, 6) = Bit(dobs.af, 6)

\* SBC with the carry set and a decimal borrow that leaves 00, after DAA
C28_Witness ==
    /\ dobs.phase = "adjusted" /\ dobs.op = "SBC" /\ dobs.c = 1
    /\ DecimalResult < 0 /\ Msb(cpu.af) = 0
---------------------------------------------------------------------------
(* The timer as the bus drives it: Timer::step followed by the poll of     *)
(* Bus::update_interrupt_flag, four times per M-cycle; CPU stores reach    *)
(* the timer registers between M-cycles.                                   *)

MaxRunSteps == 2200
MaxTimerSteps == 32
MaxTimerWrites == 2

NotTimer == <<cpu, bus, joypad, ppu, obs, pobs, cartridge, dobs>>

\* One iteration of the loop of Bus::step_m_cycle, as the timer sees it.
TimerBusTick ==
    LET t1  == TimerStep(timer)
        p   == TimerPollInterrupt(t1)
        ovf == timer.timer_counter = 255 /\ t1.timer_counter = 0
    IN  /\ timer' = p[2]
        /\ tobs' = [tobs EXCEPT
              !.n = @ + 1,
              !.last = "step",
              !.before = TimerDefault,
              !.written = 0,
              !.since = IF ovf THEN 0
                        ELSE IF @ = -1 THEN -1
                        ELSE IF @ >= 5 THEN 5 ELSE @ + 1,
              !.dirty = IF ovf THEN FALSE ELSE @,
              !.wovf = IF ovf THEN FALSE ELSE @,
              !.irqs_since = IF ovf THEN 0
                             ELSE IF p[1] /\ @ < 3 THEN @ + 1 ELSE @]
        /\ UNCHANGED NotTimer

\* Free-running timer: no register is written after the start.
TimerRunStep ==
    /\ tobs.n < MaxRunSteps
    /\ TimerBusTick

InitTimerRun ==
    /\ \E tac \in 0 .. 7, tima \in {0, 254}, tma \in {0, 240} :
          /\ timer = [TimerDefault EXCEPT !.timer_control = tac,
                                          !.timer_counter = tima,
                                          !.timer_modulo = tma]
          /\ tobs = [TObsNone EXCEPT !.tima0 = tima]
    /\ cpu = CpuDefault /\ bus = BusDefault /\ joypad = JoypadDefault
    /\ ppu = PpuDefault /\ obs = ObsNone
    /\ pobs = PObsNone /\ cartridge = CartridgeDefault /\ dobs = DObsNone

NextTimerRun == TimerRunStep

SpecTimerRun == InitTimerRun /\ [][NextTimerRun]_vars

\* A CPU store to a timer register: after a whole M-cycle, never two in a row.
CanWriteTimer ==
    /\ tobs.last = "step"
    /\ tobs.n % 4 = 0
    /\ tobs.writes < MaxTimerWrites

TimerStepAction ==
    /\ tobs.n < MaxTimerSteps
    /\ TimerBusTick

\* The timer after a store of v to one of its registers; the bookkeeping keeps
\* the register's name, the value and the timer before the store.
WroteTimer(register, t, inWindow, v) ==
    /\ timer' = t
    /\ tobs' = [tobs EXCEPT
          !.writes = @ + 1,
          !.last = register,
          !.before = timer,
          !.written = v,
          !.dirty = @ \/ inWindow,
          !.wval = IF inWindow THEN v ELSE @,
          !.wovf = @ \/ (t.interrupt_waiting /\ ~timer.interrupt_waiting)]
    /\ UNCHANGED NotTimer

\* 0xFF05 <- value
WriteTIMA ==
    /\ CanWriteTimer
    /\ \E value \in {0, 23, 255} :
          WroteTimer("TIMA", SetTimerCounter(timer, value), tobs.since \in 0 .. 3, value)

\* 0xFF06 <- value
WriteTMA ==
    /\ CanWriteTimer
    /\ \E value \in {0, 153} : WroteTimer("TMA", SetTimerModulo(timer, value), FALSE, value)

\* 0xFF07 <- value
WriteTAC ==
    /\ CanWriteTimer
    /\ \E value \in {0, 5, 6} : WroteTimer("TAC", SetTimerControl(timer, value), FALSE, value)

\* 0xFF04 <- value
WriteDIV ==
    /\ CanWriteTimer
    /\ \E value \in {0, 200} :
          WroteTimer("DIV", SetDividerRegister(timer, value), FALSE, value)

InitTimer ==
    /\ \E tac \in {5, 3}, tima \in {254, 255}, tma \in {0, 66}, tick \in {0, 8} :
          /\ timer = [TimerDefault EXCEPT !.timer_control = tac,
                                          !.timer_counter = tima,
                                          !.timer_modulo = tma,
                                          !.tick_counter = tick]
          /\ tobs = [TObsNone EXCEPT !.tima0 = tima]
    /\ cpu = CpuDefault /\ bus = BusDefault /\ joypad = JoypadDefault
    /\ ppu = PpuDefault /\ obs = ObsNone
    /\ pobs = PObsNone /\ cartridge = CartridgeDefault /\ dobs = DObsNone

NextTimer ==
    \/ TimerStepAction
    \/ WriteTIMA
    \/ WriteTMA
    \/ WriteTAC
    \/ WriteDIV

SpecTimer == InitTimer /\ [][NextTimer]_vars

---------------------------------------------------------------------------
(* The sprites of a line and the pixel buffers: Ppu::step over the lines   *)
(* of a frame with sprites in the first OAM entries, and stores to LCDC.   *)

MaxPixelSteps == 1000
MaxPixelWrites == 2
MaxSprites == 12

\* Sprite i of count (OAM entry i - 1) at the top of the screen, eight pixels
\* to the right of the one before it, with a colour of its own.
SpriteRow(count) ==
    [i \in 1 .. count |->
        [y_position |-> 16, x_position |-> 8 * i, palette_idx |-> 1, color |-> i,
         priority_under_bg |-> FALSE]]

\* The pixels that the state carries: the first pixel of every sprite on
\* lines 0 and 1, and the pixel to the right of the last sprite.
PixelWindow == {<<y, 8 * i>> : y \in {0, 1}, i \in 0 .. MaxSprites}

\* Nothing observed yet: the steps and stores made, the kind of the last
\* action and the PPU it began in.
XObsNone == [k |-> 0, writes |-> 0, last |-> "init", before |-> PpuDefault, value |-> 0]

NotPixel == <<cpu, bus, timer, joypad, obs, tobs, pobs, cartridge>>

\* The program filled OAM, chose the OAM source of STAT or none and switched
\* the LCD on with sprites enabled, 8x8 or 8x16 (LCDC 0x83 or 0x87).
InitPixel ==
    /\ cpu = CpuDefault /\ timer = TimerDefault /\ joypad = JoypadDefault
    /\ bus = BusDefault /\ obs = ObsNone /\ tobs = TObsNone /\ pobs = PObsNone
    /\ cartridge = CartridgeDefault
    /\ \E count \in {9, 10, 11, MaxSprites}, lcdc \in {131, 135}, stat \in {0, 32} :
          ppu = [PpuDefault EXCEPT !.lcd_control = lcdc, !.stat = stat,
                                   !.object_attributes = SpriteRow(count),
                                   !.back_buffer = [c \in PixelWindow |-> 0],
                                   !.front_buffer = [c \in PixelWindow |-> 0]]
    /\ dobs = [XObsNone EXCEPT !.before = ppu]

\* Ppu::step
PixelStep ==
    /\ dobs.k < MaxPixelSteps
    /\ ppu' = PpuStep(ppu)
    /\ dobs' = [dobs EXCEPT !.k = @ + 1, !.last = "step", !.before = ppu]
    /\ UNCHANGED NotPixel

\* Ppu::write_lcd_control: the LCD switched off, or on again
PixelWriteLcdc ==
    /\ dobs.writes < MaxPixelWrites
    /\ dobs.k % 200 = 100
    /\ \E value \in {3, 131} :
          /\ ppu' = WriteLcdControl(ppu, value)
          /\ dobs' = [dobs EXCEPT !.writes = @ + 1, !.last = "LCDC", !.before = ppu,
                                  !.value = value]
    /\ UNCHANGED NotPixel

NextPixel == PixelStep \/ PixelWriteLcdc

SpecPixel == InitPixel /\ [][NextPixel]_vars
---------------------------------------------------------------------------
(* The PPU as the bus drives it: Ppu::step followed by the polls of        *)
(* Bus::update_interrupt_flag; CPU stores reach STAT, LYC, LCDC and IF     *)
(* between M-cycles.                                                       *)

MaxFrameSteps == 136500
MaxPpuSteps == 520
MaxPpuWrites == 2

NotPpu == <<cpu, timer, joypad, obs, tobs, cartridge, dobs>>

\* One iteration of the loop of Bus::step_m_cycle, as the PPU sees it.
PpuBusTick ==
    LET p1 == PpuStep(ppu)
        s1 == UpdateInterruptFlag([Sys(<<>>) EXCEPT !.ppu = p1])
    IN  /\ ppu' = s1.ppu
        /\ bus' = s1.bus
        /\ pobs' = [pobs EXCEPT
              !.k = @ + 1,
              !.n = IF GetLcdPpuEnable(ppu) THEN @ + 1 ELSE 0,
              !.last = "step",
              !.before = ppu,
              !.stat_pulse = p1.stat_interrupt_waiting /\ ~ppu.stat_interrupt_waiting,
              !.vblank_pulse = p1.vblank_interrupt_waiting,
              !.vblanks = IF p1.vblank_interrupt_waiting /\ @ < 3 THEN @ + 1 ELSE @]
        /\ UNCHANGED NotPpu

\* The PPU switched on from its reset state with the STAT sources and LYC the
\* program chose beforehand, IF cleared.
PpuSwitchedOn(stat, lyc) ==
    [PpuDefault EXCEPT !.lcd_control = 128, !.stat = stat, !.lcd_y_compare = lyc]

InitPpuRest ==
    /\ cpu = CpuDefault /\ timer = TimerDefault /\ joypad = JoypadDefault
    /\ bus = BusDefault /\ obs = ObsNone /\ tobs = TObsNone
    /\ cartridge = CartridgeDefault /\ dobs = DObsNone

\* Free-running PPU: no register is written after the LCD is switched on.
InitPpuRun ==
    /\ \E stat \in {0, 96, 40}, lyc \in {0, 144} : ppu = PpuSwitchedOn(stat, lyc)
    /\ pobs = PObsNone
    /\ InitPpuRest

PpuRunStep ==
    /\ pobs.k < MaxFrameSteps
    /\ PpuBusTick

NextPpuRun == PpuRunStep

SpecPpuRun == InitPpuRun /\ [][NextPpuRun]_vars

\* The PPU of a free run in pixel transfer at dot 250 of line 143, with the
\* IF bits of the pulses before it cleared by the program.
PpuLateInFrame(stat, lyc) ==
    [PpuSwitchedOn(stat, lyc) EXCEPT !.stat = stat + 3, !.lcd_y = 143, !.dot = 250]

InitPpu ==
    /\ \E stat \in {0, 96, 40}, lyc \in {0, 144} :
          \/ ppu = PpuSwitchedOn(stat, lyc) /\ pobs = PObsNone
          \/ /\ ppu = PpuLateInFrame(stat, lyc)
             /\ pobs = [PObsNone EXCEPT !.n = 143 * 456 + 250]
    /\ InitPpuRest

PpuStepAction ==
    /\ pobs.k < MaxPpuSteps
    /\ PpuBusTick

\* A CPU store: after a whole M-cycle (two PPU steps in double speed), never
\* two in a row.
CanWritePpu ==
    /\ pobs.last \in {"step", "init"}
    /\ pobs.k % 2 = 0
    /\ pobs.writes < MaxPpuWrites

\* The state after Bus::write_byte_address(value, address); the bookkeeping
\* keeps the register's name and the PPU before the store.
PpuWrote(register, s) ==
    /\ ppu' = s.ppu
    /\ bus' = s.bus
    /\ pobs' = [pobs EXCEPT
          !.writes = @ + 1,
          !.n = IF GetLcdPpuEnable(s.ppu) THEN @ ELSE 0,
          !.last = register,
          !.before = ppu,
          !.stat_pulse = s.ppu.stat_interrupt_waiting /\ ~ppu.stat_interrupt_waiting,
          !.vblank_pulse = s.ppu.vblank_interrupt_waiting /\ ~ppu.vblank_interrupt_waiting]
    /\ UNCHANGED NotPpu

\* 0xFF41 <- value
WriteSTAT ==
    /\ CanWritePpu
    /\ \E value \in {0, 8, 32, 64, 255} :
          PpuWrote("STAT", WriteByteAddress(Sys(<<>>), value, 65345))

\* 0xFF45 <- value
WriteLYC ==
    /\ CanWritePpu
    /\ \E value \in {0, 1, 144} :
          PpuWrote("LYC", WriteByteAddress(Sys(<<>>), value, 65349))

\* 0xFF40 <- value
WriteLCDC ==
    /\ CanWritePpu
    /\ \E value \in {0, 128} :
          PpuWrote("LCDC", WriteByteAddress(Sys(<<>>), value, 65344))

\* 0xFF0F <- 0
WriteIF ==
    /\ CanWritePpu
    /\ PpuWrote("IF", WriteByteAddress(Sys(<<>>), 0, 65295))

NextPpu ==
    \/ PpuStepAction
    \/ WriteSTAT
    \/ WriteLYC
    \/ WriteLCDC
    \/ WriteIF

SpecPpu == InitPpu /\ [][NextPpu]_vars

---------------------------------------------------------------------------
(* The window line counter under the dots of the PPU and the program's     *)
(* stores to LCDC, WX and WY.  VRAM is empty, so the window and the        *)
(* background draw the same pixels and the buffers are not carried.        *)

MaxWindowSteps == 600
MaxWindowWrites == 2

\* LCDC with the LCD on and the window off or on, and with the LCD off.
WindowLcdControls == {128, 160, 32}
WindowXs == {7, 100}
WindowYs == {0, 1}

\* The dots of a line at which the program's stores arrive.
WindowWriteDots == {90, 200}

WObsWindow ==
    [k |-> 0, writes |-> 0, last |-> "none", line_start |-> 0, frame_start |-> TRUE]

\* The PPU at the first dot of a frame, or at the first dot of line 153 of a
\* frame whose window covered three lines, with the registers the program
\* stored while the LCD was off.
InitWindow ==
    /\ cpu = CpuDefault /\ timer = TimerDefault /\ joypad = JoypadDefault
    /\ bus = BusDefault /\ obs = ObsNone /\ tobs = TObsNone /\ pobs = PObsNone
    /\ cartridge = CartridgeDefault
    /\ \E lcd_control \in {128, 160}, window_x \in WindowXs, window_y \in WindowYs,
          at \in {<<0, 0>>, <<153, 0>>, <<153, 3>>} :
          /\ ppu = [PpuSwitchedOn(0, 0) @@ WindowDefault EXCEPT
                        !.lcd_control = lcd_control,
                        !.window_x = window_x, !.window_y = window_y,
                        !.lcd_y = at[1], !.window_lcd_y = at[2]]
          /\ dobs = [WObsWindow EXCEPT !.line_start = at[2],
                                       !.frame_start = at[1] = 0]

NotWindow == <<cpu, timer, joypad, bus, obs, tobs, pobs, cartridge>>

\* Ppu::step
WindowStep ==
    /\ dobs.k < MaxWindowSteps
    /\ GetLcdPpuEnable(ppu)
    /\ ppu' = PpuStepWindow(ppu)
    /\ dobs' = [dobs EXCEPT
                   !.k = @ + 1,
                   !.last = "step",
                   !.line_start = IF ppu'.dot = 0 THEN ppu'.window_lcd_y ELSE @,
                   !.frame_start = ppu'.dot = 0 /\ ppu'.lcd_y = 0]
    /\ UNCHANGED NotWindow

WindowCanWrite ==
    /\ dobs.writes < MaxWindowWrites
    /\ ~GetLcdPpuEnable(ppu) \/ ppu.dot \in WindowWriteDots

\* A store that switches the LCD on begins a frame.
WindowWriteLcdControl ==
    /\ WindowCanWrite
    /\ \E data \in WindowLcdControls \ {ppu.lcd_control} :
          /\ ppu' = WriteLcdControlWindow(ppu, data)
          /\ dobs' = [dobs EXCEPT
                         !.writes = @ + 1,
                         !.last = "lcdc",
                         !.line_start = IF ~GetLcdPpuEnable(ppu) /\ GetLcdPpuEnable(ppu')
                                        THEN ppu'.window_lcd_y ELSE @,
                         !.frame_start = ~GetLcdPpuEnable(ppu) /\ GetLcdPpuEnable(ppu')]
    /\ UNCHANGED NotWindow

WindowWriteWindowX ==
    /\ WindowCanWrite
    /\ \E value \in WindowXs :
          /\ ppu' = WriteWindowX(ppu, value)
          /\ dobs' = [dobs EXCEPT !.writes = @ + 1, !.last = "wx", !.frame_start = FALSE]
    /\ UNCHANGED NotWindow

WindowWriteWindowY ==
    /\ WindowCanWrite
    /\ \E value \in WindowYs :
          /\ ppu' = WriteWindowY(ppu, value)
          /\ dobs' = [dobs EXCEPT !.writes = @ + 1, !.last = "wy", !.frame_start = FALSE]
    /\ UNCHANGED NotWindow

NextWindow ==
    WindowStep \/ WindowWriteLcdControl \/ WindowWriteWindowX \/ WindowWriteWindowY

SpecWindow == InitWindow /\ [][NextWindow]_vars
---------------------------------------------------------------------------
(* The program's accesses to the palette registers of the PPU: stores to   *)
(* the index registers, stores to the data registers and loads from them.  *)

MaxPaletteAccesses == 4

\* Even and odd addresses at either end of the memory, with and without
\* auto-increment.
PaletteIndexes == {0, 1, 62, 63, 128, 129, 191}

\* Bytes that hold each colour component at its largest, alone and together.
PaletteBytes == {0, 31, 224, 255, 3, 4, 124, 127, 128}

\* The data registers: 0xFF69 and 0xFF6B.
PaletteDataRegisters == {65385, 65387}

PObsPalette ==
    [accesses |-> 0, last |-> "none", register |-> 0, value |-> 0,
     stored |-> [r \in PaletteDataRegisters |-> [address |-> -1, value |-> 0]]]

NotPalette == <<cpu, timer, joypad, bus, obs, tobs, pobs, cartridge>>

InitPalette ==
    /\ cpu = CpuDefault /\ timer = TimerDefault /\ joypad = JoypadDefault
    /\ bus = BusDefault /\ obs = ObsNone /\ tobs = TObsNone /\ pobs = PObsNone
    /\ cartridge = CartridgeDefault
    /\ ppu = PpuDefault @@ PaletteDefault
    /\ dobs = PObsPalette

\* The address that the index register next to a data register selects.
PaletteAddressOf(p, register) ==
    GetColorPaletteAddress(IF register = 65385 THEN p.bg_color_palette_index
                                                ELSE p.obj_color_palette_index)

PaletteAutoIncrementOf(p, register) ==
    GetColorPaletteAutoIncrement(IF register = 65385 THEN p.bg_color_palette_index
                                                      ELSE p.obj_color_palette_index)

\* Ppu::write_background_palette_index, Ppu::write_obj_palette_index
PaletteStoreIndex ==
    /\ dobs.accesses < MaxPaletteAccesses
    /\ \E register \in PaletteDataRegisters, value \in PaletteIndexes :
          /\ ppu' = IF register = 65385
                    THEN [ppu EXCEPT !.bg_color_palette_index = value]
                    ELSE [ppu EXCEPT !.obj_color_palette_index = value]
          /\ dobs' = [dobs EXCEPT !.accesses = @ + 1, !.last = "index",
                                  !.register = register - 1, !.value = value,
                                  !.stored[register].address = -1]
    /\ UNCHANGED NotPalette

\* A store to a data register; what it stored is remembered while the index
\* register still selects the address, that is, with auto-increment off.
PaletteStoreData ==
    /\ dobs.accesses < MaxPaletteAccesses
    /\ \E register \in PaletteDataRegisters, value \in PaletteBytes :
          /\ ppu' = IF register = 65385 THEN WriteBackgroundPaletteData(ppu, value)
                                        ELSE WriteObjPaletteData(ppu, value)
          /\ dobs' = [dobs EXCEPT
                         !.accesses = @ + 1, !.last = "store",
                         !.register = register, !.value = value,
                         !.stored[register] =
                             IF PaletteAutoIncrementOf(ppu, register)
                             THEN [address |-> -1, value |-> 0]
                             ELSE [address |-> PaletteAddressOf(ppu, register),
                                   value |-> value]]
    /\ UNCHANGED NotPalette

\* A load from a data register.
PaletteLoadData ==
    /\ dobs.accesses < MaxPaletteAccesses
    /\ \E register \in PaletteDataRegisters :
          dobs' = [dobs EXCEPT
                      !.accesses = @ + 1, !.last = "load", !.register = register,
                      !.value = IF register = 65385 THEN ReadBackgroundPaletteData(ppu)
                                                    ELSE ReadObjPaletteData(ppu)]
    /\ UNCHANGED <<ppu, cpu, timer, joypad, bus, obs, tobs, pobs, cartridge>>

NextPalette == PaletteStoreIndex \/ PaletteStoreData \/ PaletteLoadData

SpecPalette == InitPalette /\ [][NextPalette]_vars
---------------------------------------------------------------------------
(* Work RAM and high RAM behind the bus: Bus::write_byte_address and       *)
(* Bus::read_byte_address on 0xC000-0xFDFF, 0xFF70 and 0xFF80-0xFFFE.       *)

MaxRamAccesses == 4

\* The offsets of every work RAM bank that the state carries: its first and
\* its last byte.
RamWindow == {0, 4095}

\* 0xC000, 0xCFFF, 0xD000, 0xDFFF, 0xFF80, 0xFFFE
RamAddresses == {49152, 53247, 53248, 57343, 65408, 65534}

\* 0xE000 and 0xF000, the echoes of 0xC000 and 0xD000
EchoAddresses == {57344, 61440}

\* Nothing observed yet: the accesses made, the kind of the last one and of
\* the one before it, its address and the byte stored or returned, the address,
\* byte and selected bank of the last store, and the work RAM before the last
\* access.
RObsNone ==
    [accesses |-> 0, last |-> "init", previous |-> "init", address |-> 0, value |-> 0,
     stored |-> [address |-> 0, value |-> 0, index |-> 0],
     before |-> BusDefault.wram_banks, high_before |-> BusDefault.high_ram]

NotRam == <<cpu, timer, joypad, ppu, obs, tobs, pobs, cartridge>>

\* Bus::new: eight zeroed banks, bank 1 selected.
InitRam ==
    /\ cpu = CpuDefault /\ timer = TimerDefault /\ joypad = JoypadDefault
    /\ ppu = PpuDefault /\ obs = ObsNone /\ tobs = TObsNone /\ pobs = PObsNone
    /\ cartridge = CartridgeDefault
    /\ bus = [BusDefault EXCEPT !.wram_banks = [bank \in 0 .. 7 |-> [a \in RamWindow |-> 0]]]
    /\ dobs = [RObsNone EXCEPT !.before = bus.wram_banks]

\* What an access leaves behind
RamCommit(s, kind, address, value) ==
    /\ bus' = s.bus
    /\ dobs' = [dobs EXCEPT
                  !.accesses = @ + 1, !.last = kind, !.previous = dobs.last,
                  !.address = address, !.value = value,
                  !.stored = IF kind = "write"
                             THEN [address |-> address, value |-> value,
                                   index |-> bus.wram_bank_index]
                             ELSE @,
                  !.before = bus.wram_banks, !.high_before = bus.high_ram]
    /\ UNCHANGED NotRam

\* Bus::write_byte_address on work RAM, echo RAM or high RAM
RamStore ==
    /\ dobs.accesses < MaxRamAccesses
    /\ \E address \in RamAddresses \cup EchoAddresses, value \in {1, 255} :
          RamCommit(WriteByteAddress(Sys(<<>>), value, address), "write", address, value)

\* Bus::read_byte_address on work RAM, echo RAM or high RAM
RamLoad ==
    /\ dobs.accesses < MaxRamAccesses
    /\ \E address \in RamAddresses \cup EchoAddresses :
          RamCommit(Sys(<<>>), "read", address, ReadByteAddress(Sys(<<>>), address))

\* Bus::write_byte_address on 0xFF70
RamSelectBank ==
    /\ dobs.accesses < MaxRamAccesses
    /\ \E value \in {0, 2, 7, 10, 248} :
          RamCommit(WriteByteAddress(Sys(<<>>), value, 65392), "select", 65392, value)

NextRam == RamStore \/ RamLoad \/ RamSelectBank

SpecRam == InitRam /\ [][NextRam]_vars
---------------------------------------------------------------------------
(* The boot ROM overlay: Bus::write_byte_address on 0xFF50 and elsewhere,   *)
(* Bus::read_byte_address below 0x8000.                                     *)

MaxBootAccesses == 5

\* 0xFF50, 0xFF70 and the first byte of high RAM, and the bytes stored there
BootStores == {<<65360, 0>>, <<65360, 1>>, <<65360, 17>>, <<65360, 255>>,
               <<65392, 2>>, <<65408, 1>>}

\* The first and the last address of both overlaid ranges, and those of the
\* cartridge header between them and of the ROM after them
BootLoads == {0, 255, 256, 511, 512, 2303, 2304}

\* Nothing observed yet: the accesses made, the kind of the last one, its
\* address, the byte stored, the memory that supplied the byte loaded, and
\* whether a store to 0xFF50 has disabled the overlay.
BObsBoot ==
    [accesses |-> 0, last |-> "init", address |-> 0, value |-> 0,
     source |-> "none", disabled |-> FALSE]

\* Bus::new: the overlay enabled
InitBoot ==
    /\ cpu = CpuDefault /\ timer = TimerDefault /\ joypad = JoypadDefault
    /\ ppu = PpuDefault /\ obs = ObsNone /\ tobs = TObsNone /\ pobs = PObsNone
    /\ cartridge = CartridgeDefault
    /\ bus = BusDefault
    /\ dobs = BObsBoot

\* Bus::write_byte_address
BootStore ==
    /\ dobs.accesses < MaxBootAccesses
    /\ \E store \in BootStores :
          /\ bus' = WriteByteAddress(Sys(<<>>), store[2], store[1]).bus
          /\ dobs' = [dobs EXCEPT
                        !.accesses = @ + 1, !.last = "write",
                        !.address = store[1], !.value = store[2],
                        !.disabled = @ \/ (bus.boot_rom_enabled /\ ~bus'.boot_rom_enabled)]
    /\ UNCHANGED NotRam

\* Bus::read_byte_address
BootLoad ==
    /\ dobs.accesses < MaxBootAccesses
    /\ \E address \in BootLoads :
          dobs' = [dobs EXCEPT !.accesses = @ + 1, !.last = "read",
                               !.address = address,
                               !.source = LowReadSource(Sys(<<>>), address)]
    /\ UNCHANGED <<bus, cpu, timer, joypad, ppu, obs, tobs, pobs, cartridge>>

NextBoot == BootStore \/ BootLoad

SpecBoot == InitBoot /\ [][NextBoot]_vars
---------------------------------------------------------------------------
(* The VRAM DMA engine of the bus: stores to HDMA5 (0xFF55) between        *)
(* M-cycles, and the block that Bus::step_m_cycle copies on entering       *)
(* H-blank.  The source is work RAM at 0xC000, the destination tile data   *)
(* at 0x8000; the program filled the source and the HDMA1-4 registers      *)
(* beforehand.                                                             *)

MaxDmaSteps == 350
MaxDmaWrites == 3
DmaWindowBytes == 96

DmaWindow == 0 .. DmaWindowBytes - 1

NotDma == <<cpu, tobs, pobs, cartridge>>

\* The fields of the bus that the DMA engine owns.
DmaRegisters(b) ==
    [dma_source |-> b.dma_source, dma_destination |-> b.dma_destination,
     hblank_dma_blocks_left |-> b.hblank_dma_blocks_left,
     hblank_dma_ongoing |-> b.hblank_dma_ongoing]

\* The program's stores to HDMA1-4: source 0xC000 and destination 0x8000,
\* whichever don't-care bits it put into the destination and the low nibbles.
InitDma ==
    /\ cpu = CpuDefault /\ timer = TimerDefault /\ joypad = JoypadDefault
    /\ obs = ObsNone /\ tobs = TObsNone /\ pobs = PObsNone
    /\ cartridge = CartridgeDefault
    /\ ppu = [PpuSwitchedOn(0, 0) EXCEPT !.tile_data = [a \in DmaWindow |-> 0]]
    /\ \E high \in {0, 224}, low \in {0, 15} :
          bus = WriteDmaDestinationLow(WriteDmaDestinationHigh(
                    WriteDmaSourceLow(WriteDmaSourceHigh(
                        [BusDefault EXCEPT !.wram_banks[0] = [a \in DmaWindow |-> a + 1]],
                        192), low), high), low)
    /\ dobs = [DObsNone EXCEPT !.before = DmaRegisters(bus),
                               !.vram_before = ppu.tile_data]

\* What a call leaves behind, with the bookkeeping d of the action.
DmaCommit(s, d) ==
    /\ s.obs.modelled
    /\ bus' = s.bus
    /\ ppu' = s.ppu
    /\ timer' = s.timer
    /\ joypad' = s.joypad
    /\ obs' = obs
    /\ dobs' = [d EXCEPT !.before = DmaRegisters(bus), !.vram_before = ppu.tile_data]
    /\ UNCHANGED NotDma

\* The transfer that the last store to HDMA5 started still has blocks to go.
DmaDue == dobs.length >= 0 /\ dobs.entries < dobs.length + 1

\* Bus::step_m_cycle
DmaStepMCycle ==
    /\ dobs.k < MaxDmaSteps
    /\ Then(StepMCycle(Sys(<<>>)),
            LAMBDA s1 : DmaCommit(s1,
                [dobs EXCEPT
                    !.k = @ + 1,
                    !.last = "tick",
                    !.hblank_entered = /\ GetStatMode(ppu) # "HBlank"
                                       /\ GetStatMode(s1.ppu) = "HBlank",
                    !.entries = IF /\ DmaDue /\ GetStatMode(ppu) # "HBlank"
                                   /\ GetStatMode(s1.ppu) = "HBlank"
                                THEN @ + 1 ELSE @]))

\* A store to HDMA5 while the PPU is in OAM search (dot 0 of a line) or in
\* H-blank (dot 320).
WriteHDMA5 ==
    /\ dobs.writes < MaxDmaWrites
    /\ dobs.last # "hdma5"
    /\ dobs.k % 114 \in {0, 80}
    /\ \E value \in {128, 129, 0, 1} :
          DmaCommit(WriteByteAddress(Sys(<<>>), value, 65365),
              [dobs EXCEPT !.writes = @ + 1,
                           !.last = "hdma5",
                           !.written = value,
                           !.hblank_entered = FALSE,
                           !.length = IF value >= 128 THEN value % 128 ELSE -1,
                           !.entries = 0])

NextDma == DmaStepMCycle \/ WriteHDMA5

SpecDma == InitDma /\ [][NextDma]_vars
---------------------------------------------------------------------------
(* The VRAM DMA engine with a destination near the end of a VRAM region:   *)
(* the program stores the destination to HDMA3/HDMA4, then a length to     *)
(* HDMA5.  The cartridge has no RAM, so a store at 0xA000-0xBFFF changes   *)
(* nothing and the state after it is carried in full.                      *)

MaxDmaEndSteps == 240
MaxDmaEndWrites == 1

\* The bytes of VRAM that a two-block copy from one of the destinations can reach.
DmaEndWindow == (224 .. 271) \cup (8160 .. 8191)

\* The values stored to HDMA3 (0x9F twice, 0x80) and to HDMA4.
DmaEndHighs == {31, 255, 0}
DmaEndLows == {240, 224}

EObsNone == [k |-> 0, writes |-> 0, last |-> "none", copied |-> {},
             programmed |-> 0]

\* The addresses that the calls of write_byte_address in stores received.
StoredAddresses(stores) == {stores[i][1] : i \in DOMAIN stores}

InitDmaEnd ==
    /\ cpu = CpuDefault /\ timer = TimerDefault /\ joypad = JoypadDefault
    /\ obs = ObsNone /\ tobs = TObsNone /\ pobs = PObsNone
    /\ cartridge = CartridgeDefault
    /\ ppu = [PpuSwitchedOn(0, 0) EXCEPT !.tile_data = [a \in DmaEndWindow |-> 0]]
    /\ \E high \in DmaEndHighs, low \in DmaEndLows :
          bus = WriteDmaDestinationLow(WriteDmaDestinationHigh(
                    WriteDmaSourceLow(WriteDmaSourceHigh(
                        [BusDefault EXCEPT !.wram_banks[0] = [a \in 0 .. 31 |-> a + 1]],
                        192), 0), high), low)
    /\ dobs = [EObsNone EXCEPT !.programmed = bus.dma_destination]

DmaEndCommit(s, d) ==
    /\ bus' = s.bus
    /\ ppu' = s.ppu
    /\ timer' = s.timer
    /\ joypad' = s.joypad
    /\ obs' = obs
    /\ dobs' = d
    /\ UNCHANGED NotDma

\* Bus::step_m_cycle: every store it makes is a byte of the H-blank block.
DmaEndStepMCycle ==
    /\ dobs.k < MaxDmaEndSteps
    /\ Then(StepMCycle(Sys(<<>>)),
            LAMBDA s1 : DmaEndCommit(s1,
                [dobs EXCEPT !.k = @ + 1,
                             !.last = "tick",
                             !.copied = StoredAddresses(s1.obs.writes)]))

\* A store to HDMA5 at dot 0 of the first line; the stores after the one to
\* HDMA5 itself are the bytes of the general DMA.
DmaEndWriteHDMA5 ==
    /\ dobs.writes < MaxDmaEndWrites
    /\ dobs.k = 0
    /\ \E value \in {128, 129, 0, 1} :
          Then(WriteByteAddress(Sys(<<>>), value, 65365),
               LAMBDA s1 : DmaEndCommit(s1,
                   [dobs EXCEPT !.writes = @ + 1,
                                !.last = "hdma5",
                                !.copied = StoredAddresses(Tail(s1.obs.writes))]))

NextDmaEnd == DmaEndStepMCycle \/ DmaEndWriteHDMA5

SpecDmaEnd == InitDmaEnd /\ [][NextDmaEnd]_vars
---------------------------------------------------------------------------
(* The APU as the bus drives it: Bus::write_byte_address hands a store to   *)
(* 0xFF10-0xFF26 to the Apu::write_nrXY of the address, and                 *)
(* Bus::step_m_cycle calls Apu::step.                                       *)

MaxApuSteps == 17
MaxApuWrites == 2

\* Nothing observed yet of the APU: the steps and the stores made, the kind of
\* the last action, the Apu it began in, and the address and byte of the last
\* store.
AObsNone ==
    [steps |-> 0, writes |-> 0, last |-> "init", before |-> ApuDefault,
     address |-> 0, value |-> 0]

NotApu == <<cpu, timer, joypad, ppu, obs, tobs, pobs, cartridge>>

InitApu ==
    /\ cpu = CpuDefault /\ timer = TimerDefault /\ joypad = JoypadDefault
    /\ ppu = PpuDefault /\ obs = ObsNone /\ tobs = TObsNone /\ pobs = PObsNone
    /\ cartridge = CartridgeDefault
    /\ bus = BusDefault
    /\ dobs = AObsNone

\* The stores the specification makes: to every register that sets a length,
\* an envelope, a sweep or the wave DAC, the trigger and length-enable bits of
\* every NRx4, and the power bit of NR52.
ApuStores ==
    {<<65296, 17>>, <<65297, 63>>, <<65298, 0>>, <<65298, 8>>, <<65298, 240>>,
     <<65300, 128>>, <<65300, 192>>, <<65300, 135>>,
     <<65302, 63>>, <<65303, 0>>, <<65303, 240>>, <<65305, 128>>, <<65305, 192>>,
     <<65306, 0>>, <<65306, 128>>, <<65307, 255>>, <<65310, 128>>, <<65310, 192>>,
     <<65312, 63>>, <<65313, 0>>, <<65313, 241>>, <<65315, 128>>, <<65315, 192>>,
     <<65318, 0>>, <<65318, 128>>}

\* Bus::write_byte_address on an APU register
ApuStore ==
    /\ dobs.writes < MaxApuWrites
    /\ \E store \in ApuStores :
          /\ bus' = [bus EXCEPT !.apu = ApuWrite(@, store[2], store[1])]
          /\ dobs' = [dobs EXCEPT !.writes = @ + 1, !.last = "write",
                                  !.before = bus.apu,
                                  !.address = store[1], !.value = store[2]]
    /\ UNCHANGED NotApu

\* Apu::step, once
ApuStepOnce ==
    /\ dobs.steps < MaxApuSteps
    /\ bus' = [bus EXCEPT !.apu = ApuStep(@)]
    /\ dobs' = [dobs EXCEPT !.steps = @ + 1, !.last = "step", !.before = bus.apu]
    /\ UNCHANGED NotApu

\* The clock of the next frame sequencer tick
NextTick(clock) == clock + SEQUENCER_CLOCK_PERIOD - (clock % SEQUENCER_CLOCK_PERIOD)

\* Apu::step, repeated up to the next frame sequencer tick and none of the
\* calls a tick: each repeats the DAC tests of channels 1 and 3 on registers it
\* leaves alone and counts the clocks up, so the calls together do what one
\* does and leave the clocks at the tick.
ApuStepsToTick(apu) ==
    With(ApuStep(apu), LAMBDA a :
         [a EXCEPT !.channel_1.clock = NextTick(apu.channel_1.clock),
                   !.channel_2.clock = NextTick(apu.channel_2.clock),
                   !.channel_3.clock = NextTick(apu.channel_3.clock),
                   !.channel_4.clock = NextTick(apu.channel_4.clock)])

ApuIdle ==
    /\ dobs.steps < MaxApuSteps
    /\ bus.apu.channel_1.clock % SEQUENCER_CLOCK_PERIOD # 0
    /\ bus' = [bus EXCEPT !.apu = ApuStepsToTick(@)]
    /\ dobs' = [dobs EXCEPT !.steps = @ + 1, !.last = "idle", !.before = bus.apu]
    /\ UNCHANGED NotApu

NextApu == ApuStore \/ ApuStepOnce \/ ApuIdle

SpecApu == InitApu /\ [][NextApu]_vars
---------------------------------------------------------------------------
(* The noise generator of channel 4, triggered and stepped.                 *)

MaxNoiseSteps == 34
MaxNoiseTriggers == 1

\* Channel4::default
Channel4NoiseDefault ==
    [polynomial_counter |-> 0, linear_feedback_shift_register |-> 0,
     noise_ticks_left |-> 0]

\* Nothing observed yet: the noise generator, the steps and triggers made,
\* the kind of the last action, the steps made since the timer was last
\* loaded and whether the last step clocked the shift register, and the steps
\* the timer ran for when it did.
NObsNoise ==
    [noise |-> Channel4NoiseDefault, steps |-> 0, triggers |-> 0, last |-> "init",
     since |-> 0, clocked |-> FALSE, ran |-> 0]

NotNoise == <<cpu, bus, timer, joypad, ppu, obs, tobs, pobs, cartridge>>

\* The program stored to NR43 and triggered the channel through NR44.
InitNoise ==
    /\ cpu = CpuDefault /\ timer = TimerDefault /\ joypad = JoypadDefault
    /\ ppu = PpuDefault /\ obs = ObsNone /\ tobs = TObsNone /\ pobs = PObsNone
    /\ cartridge = CartridgeDefault /\ bus = BusDefault
    /\ \E value \in 0 .. 255 :
          dobs = [NObsNoise EXCEPT
                     !.noise = Channel4TriggerNoise(
                                   WritePolynomialCounter(Channel4NoiseDefault, value)),
                     !.last = "trigger"]

\* Channel4::step
NoiseStep ==
    /\ dobs.steps < MaxNoiseSteps
    /\ dobs' = [dobs EXCEPT
                  !.noise = Channel4StepNoise(@),
                  !.steps = @ + 1, !.last = "step",
                  !.clocked = SaturatingDec(dobs.noise.noise_ticks_left) = 0,
                  !.since = IF SaturatingDec(dobs.noise.noise_ticks_left) = 0
                            THEN 0 ELSE @ + 1,
                  !.ran = IF SaturatingDec(dobs.noise.noise_ticks_left) = 0
                          THEN dobs.since + 1 ELSE @]
    /\ UNCHANGED NotNoise

\* Channel4::write_counter_consecutive with bit 7 set
NoiseTrigger ==
    /\ dobs.triggers < MaxNoiseTriggers
    /\ dobs' = [dobs EXCEPT !.noise = Channel4TriggerNoise(@),
                            !.triggers = @ + 1, !.last = "trigger",
                            !.since = 0, !.clocked = FALSE]
    /\ UNCHANGED NotNoise

NextNoise == NoiseStep \/ NoiseTrigger

SpecNoise == InitNoise /\ [][NextNoise]_vars
---------------------------------------------------------------------------
(* Channel 1 with its sweep set up and the channel triggered, then stepped  *)
(* through frame sequencer ticks with stores to NR10, NR13 and NR14 between *)
(* them.                                                                    *)

MaxSweepSteps == 22
MaxSweepWrites == 2

\* NR10 as the program sets it before the trigger: period 1 or 2 or none,
\* shift 0, 1, 2 or 7, adding or negating.
SweepSettings == {0, 16, 17, 18, 23, 25, 33, 41, 9}

\* The frequency the channel is triggered with.
SweepFrequencies == {0, 1, 1023, 1365, 1366, 1638, 1639, 2047}

\* The stores made afterwards: NR10 with the negate bit set or clear, a new
\* low byte of the frequency, a new high byte with or without the trigger.
SweepStores ==
    {<<65296, 17>>, <<65296, 25>>, <<65296, 16>>, <<65296, 0>>,
     <<65299, 255>>, <<65300, 7>>, <<65300, 135>>, <<65300, 132>>}

\* The stores that set the channel up: NR12 with the DAC on, NR10, NR13 and
\* NR14 with the trigger bit.
SweepSetUp(apu, setting, frequency) ==
    ApuWrite(ApuWrite(ApuWrite(ApuWrite(apu, 240, 65298), setting, 65296),
                      frequency % 256, 65299),
             128 + (frequency \div 256), 65300)

\* Nothing observed yet: as for the APU, and whether a sweep calculation was
\* made in negate mode since the last trigger.
SObsNone ==
    [steps |-> 0, writes |-> 0, last |-> "init", before |-> ApuDefault,
     address |-> 0, value |-> 0, negate_used |-> FALSE]

\* The trigger of channel 1 makes a sweep calculation when the shift is not 0.
TriggerNegates(c) == c.sweep % 8 # 0 /\ Bit(c.sweep, 3) = 1

\* A frame sequencer tick makes one on a sweep slot when the sweep timer runs
\* out with the sweep enabled and its period not 0.
TickNegates(c) ==
    /\ c.frame_sequencer_idx \in {2, 6} /\ c.sweep_ticks_left <= 1
    /\ c.frequency_sweep_enabled /\ (c.sweep \div 16) % 8 # 0
    /\ Bit(c.sweep, 3) = 1

InitSweep ==
    /\ cpu = CpuDefault /\ timer = TimerDefault /\ joypad = JoypadDefault
    /\ ppu = PpuDefault /\ obs = ObsNone /\ tobs = TObsNone /\ pobs = PObsNone
    /\ cartridge = CartridgeDefault
    /\ \E setting \in SweepSettings, frequency \in SweepFrequencies :
          bus = [BusDefault EXCEPT !.apu = SweepSetUp(@, setting, frequency)]
    /\ dobs = [SObsNone EXCEPT !.before = bus.apu,
                              !.negate_used = TriggerNegates(bus.apu.channel_1)]

\* Bus::write_byte_address on NR10, NR13 or NR14
SweepStore ==
    /\ dobs.writes < MaxSweepWrites
    /\ \E store \in SweepStores :
          /\ bus' = [bus EXCEPT !.apu = ApuWrite(@, store[2], store[1])]
          /\ dobs' = [dobs EXCEPT !.writes = @ + 1, !.last = "write",
                                  !.before = bus.apu,
                                  !.address = store[1], !.value = store[2],
                                  !.negate_used =
                                      IF store[1] = 65300 /\ Bit(store[2], 7) = 1
                                      THEN TriggerNegates(bus.apu.channel_1)
                                      ELSE @]
    /\ UNCHANGED NotApu

\* Apu::step on a frame sequencer tick
SweepTick ==
    /\ dobs.steps < MaxSweepSteps
    /\ bus.apu.channel_1.clock % SEQUENCER_CLOCK_PERIOD = 0
    /\ bus' = [bus EXCEPT !.apu = ApuStep(@)]
    /\ dobs' = [dobs EXCEPT !.steps = @ + 1, !.last = "step", !.before = bus.apu,
                            !.negate_used = @ \/ TickNegates(bus.apu.channel_1)]
    /\ UNCHANGED NotApu

\* Apu::step, repeated up to the next frame sequencer tick
SweepIdle ==
    /\ dobs.steps < MaxSweepSteps
    /\ bus.apu.channel_1.clock % SEQUENCER_CLOCK_PERIOD # 0
    /\ bus' = [bus EXCEPT !.apu = ApuStepsToTick(@)]
    /\ dobs' = [dobs EXCEPT !.steps = @ + 1, !.last = "idle", !.before = bus.apu]
    /\ UNCHANGED NotApu

NextSweep == SweepStore \/ SweepTick \/ SweepIdle

SpecSweep == InitSweep /\ [][NextSweep]_vars
---------------------------------------------------------------------------
(* The joypad as the host and the bus drive it: Cpu::set_button_pressed    *)
(* between steps, Bus::step_m_cycle and Bus::poll_interrupt.               *)

MaxJoypadEvents == 4

\* Nothing observed yet of the joypad: the calls made, the kind of the last
\* one, whether a button went from released to pressed with no bus call since,
\* whether the last call was the first bus call after such a press, and the
\* source the last poll returned.
JObsNone ==
    [events |-> 0, last |-> "init", pending |-> FALSE, due |-> FALSE, took |-> -1]

NotJoypad == <<tobs, pobs, cartridge>>

InitJoypad ==
    /\ cpu = CpuDefault /\ timer = TimerDefault /\ joypad = JoypadDefault
    /\ ppu = PpuDefault /\ obs = ObsNone /\ tobs = TObsNone /\ pobs = PObsNone
    /\ cartridge = CartridgeDefault
    /\ \E ime \in BOOLEAN, ie \in {0, 16} :
          bus = [BusDefault EXCEPT !.interrupt_master_enable = ime,
                                   !.interrupt_enable = ie]
    /\ dobs = JObsNone

\* What a call leaves behind, with the bookkeeping d of the action.
JoypadCommit(s, d) ==
    /\ dobs.events < MaxJoypadEvents
    /\ cpu' = s.cpu
    /\ bus' = s.bus
    /\ timer' = s.timer
    /\ joypad' = s.joypad
    /\ ppu' = s.ppu
    /\ obs' = s.obs
    /\ dobs' = [d EXCEPT !.events = @ + 1]
    /\ UNCHANGED NotJoypad

\* Cpu::set_button_pressed
JoypadButtonEvent ==
    \E button \in Buttons, pressed \in BOOLEAN :
        JoypadCommit(SetButtonPressed(Sys(<<>>), button, pressed),
            [dobs EXCEPT !.last = IF pressed THEN "press" ELSE "release",
                         !.pending = @ \/ (pressed /\ ~joypad[ButtonField(button)]),
                         !.due = FALSE,
                         !.took = -1])

\* Bus::step_m_cycle
JoypadStepMCycle ==
    JoypadCommit(StepMCycle(Sys(<<>>)),
        [dobs EXCEPT !.last = "step", !.pending = FALSE, !.due = dobs.pending,
                     !.took = -1])

\* Bus::poll_interrupt
JoypadPoll ==
    ThenBoth(PollInterrupt(Sys(<<>>)),
         LAMBDA bit_idx, s1 :
             JoypadCommit(s1,
                 [dobs EXCEPT !.last = "poll", !.pending = FALSE,
                              !.due = dobs.pending, !.took = bit_idx]))

NextJoypad == JoypadButtonEvent \/ JoypadStepMCycle \/ JoypadPoll

SpecJoypad == InitJoypad /\ [][NextJoypad]_vars
---------------------------------------------------------------------------
(* Cartridge (src/cartridge.rs): the three variants with their bank        *)
(* registers.  A read is <<byte, completed>> and a write is                *)
(* <<cartridge after, completed>>; an access that panics (index out of     *)
(* range, remainder by zero, unreachable!()) has not completed.            *)

\* self.ram[bank][0]
RamRead(c, bank) ==
    IF bank \in DOMAIN c.ram THEN <<c.ram[bank], TRUE>> ELSE <<0, FALSE>>

\* self.ram[bank][0] = value
RamWrite(c, bank, value) ==
    IF bank \in DOMAIN c.ram THEN <<[c EXCEPT !.ram[bank] = value], TRUE>>
    ELSE <<c, FALSE>>

\* self.rom[bank][offset]
RomRead(c, bank, offset) ==
    IF bank < c.rom_banks THEN <<RomByte(bank, offset), TRUE>> ELSE <<0, FALSE>>

\* NoMbc::read: rom is the flat image
NoMbcRead(c, address) ==
    IF address <= 32767 THEN RomRead(c, address \div 16384, address % 16384)
    ELSE RamRead(c, 0)

\* NoMbc::write
NoMbcWrite(c, value, address) ==
    IF address <= 32767 THEN <<c, TRUE>> ELSE RamWrite(c, 0, value)

\* The RAM bank of Mbc1::read and Mbc1::write: -1 when the remainder divides
\* by zero.
Mbc1RamBank(c) ==
    IF c.simple_rom_banking THEN 0
    ELSE IF c.ram_banks = 0 THEN -1
    ELSE c.bank_2 % c.ram_banks

Mbc1Read_Bank1Only(c, address) ==
    CASE address <= 16383 -> RomRead(c, 0, address)
      [] address >= 16384 /\ address <= 32767 ->
             RomRead(c, c.bank_1 % c.rom_banks, address - 16384)
      [] OTHER -> <<255, TRUE>>

\* Mbc1::read
Mbc1Read(c, address) ==
    CASE address <= 16383 ->
             RomRead(c, (IF c.simple_rom_banking THEN 0 ELSE c.bank_2 * 32) % c.rom_banks,
                     address)
      [] address >= 16384 /\ address <= 32767 ->
             RomRead(c, BitOr(c.bank_1, c.bank_2 * 32) % c.rom_banks, address - 16384)
      [] OTHER ->
             IF c.ram_enabled THEN RamRead(c, Mbc1RamBank(c)) ELSE <<255, TRUE>>

\* Mbc1::write
Mbc1Write(c, value, address) ==
    CASE address <= 8191 -> <<[c EXCEPT !.ram_enabled = value % 16 = 10], TRUE>>
      [] address >= 8192 /\ address <= 16383 ->
             <<[c EXCEPT !.bank_1 = IF value % 32 = 0 THEN 1 ELSE value % 32], TRUE>>
      [] address >= 16384 /\ address <= 24575 ->
             <<[c EXCEPT !.bank_2 = value % 4], TRUE>>
      [] address >= 24576 /\ address <= 32767 ->
             <<[c EXCEPT !.simple_rom_banking = value % 2 = 0], TRUE>>
      [] OTHER ->
             IF c.ram_enabled THEN RamWrite(c, Mbc1RamBank(c), value) ELSE <<c, TRUE>>

\* Mbc3::write_latch
WriteLatch(c, value) ==
    [c EXCEPT !.latch_state =
        IF value = 0 THEN "PartialLatch"
        ELSE IF value = 1 /\ @ = "PartialLatch" THEN "Latched"
        ELSE "Unlatched"]

\* Mbc3::read
Mbc3Read(c, address) ==
    CASE address <= 16383 -> RomRead(c, 0, address)
      [] address >= 16384 /\ address <= 32767 -> RomRead(c, c.rom_bank, address - 16384)
      [] OTHER ->
             IF ~c.ram_enabled THEN <<255, TRUE>>
             ELSE IF c.ram_bank <= 3 THEN RamRead(c, c.ram_bank)
             ELSE IF c.ram_bank >= 8 /\ c.ram_bank <= 12 THEN <<c.rtc[c.ram_bank], TRUE>>
             ELSE <<0, FALSE>>

\* The masks of the RTC registers 0x08-0x0C in Mbc3::write.
RtcMask(register) ==
    CASE register = 8 -> 63
      [] register = 9 -> 63
      [] register = 10 -> 31
      [] register = 11 -> 255
      [] register = 12 -> 193

\* Mbc3::write
Mbc3Write(c, value, address) ==
    CASE address <= 8191 -> <<[c EXCEPT !.ram_enabled = value # 0], TRUE>>
      [] address >= 8192 /\ address <= 16383 ->
             <<[c EXCEPT !.rom_bank = IF value = 0 THEN 1 ELSE value], TRUE>>
      [] address >= 16384 /\ address <= 24575 -> <<[c EXCEPT !.ram_bank = value], TRUE>>
      [] address >= 24576 /\ address <= 32767 -> <<WriteLatch(c, value), TRUE>>
      [] OTHER ->
             IF ~c.ram_enabled THEN <<c, TRUE>>
             ELSE IF c.ram_bank <= 3 THEN RamWrite(c, c.ram_bank, value)
             ELSE IF c.ram_bank >= 8 /\ c.ram_bank <= 12
             THEN <<[c EXCEPT !.rtc[c.ram_bank] = BitAnd(value, RtcMask(c.ram_bank))], TRUE>>
             ELSE <<c, FALSE>>

\* Cartridge::read
CartridgeTypeRead(c, address) ==
    CASE c.cartridge_type = "NoMbc" -> NoMbcRead(c, address)
      [] c.cartridge_type = "Mbc1" -> Mbc1Read(c, address)
      [] c.cartridge_type = "Mbc3" -> Mbc3Read(c, address)

\* Cartridge::write
CartridgeTypeWrite(c, value, address) ==
    CASE c.cartridge_type = "NoMbc" -> NoMbcWrite(c, value, address)
      [] c.cartridge_type = "Mbc1" -> Mbc1Write(c, value, address)
      [] c.cartridge_type = "Mbc3" -> Mbc3Write(c, value, address)

\* Mbc3::read_halt, read_day_counter
ReadHalt(c) == Bit(c.rtc[12], 6) = 1
ReadDayCounter(c) == Bit(c.rtc[12], 0) * 256 + c.rtc[11]

\* Mbc3::write_day_counter: bit 9 of the count sets the carry bit of DH, which
\* stays set; bit 8 is the top bit of the counter.
WriteDayCounter(c, value) ==
    [c EXCEPT !.rtc[11] = value % 256,
              !.rtc[12] = With(IF Bit(value, 9) = 1 THEN SetBit(@, 7) ELSE @,
                               LAMBDA dh : IF Bit(value, 8) = 1 THEN SetBit(dh, 0)
                                                                ELSE ClearBit(dh, 0))]

\* One field of the clock moved on by `extra`: <<field, carry out>>.  A field
\* already past its limit wraps at its register width and carries nothing.
RtcAdvance(field, extra, limit, mask) ==
    IF field >= limit THEN <<(field + extra) % (mask + 1), 0>>
    ELSE <<(field + extra) % limit, (field + extra) \div limit>>

\* The clock registers after `whole` seconds: seconds, minutes, hours, days.
RtcCarry(c, whole) ==
    Bind(RtcAdvance(c.rtc[8], whole, 60, 63),
         LAMBDA secs, extra_mins :
             Bind(RtcAdvance(c.rtc[9], extra_mins, 60, 63),
                  LAMBDA mins, extra_hours :
                      Bind(RtcAdvance(c.rtc[10], extra_hours, 24, 31),
                           LAMBDA hours, extra_days :
                               WriteDayCounter(
                                   [c EXCEPT !.rtc[8] = secs, !.rtc[9] = mins,
                                             !.rtc[10] = hours],
                                   (ReadDayCounter(c) + extra_days) % 65536))))

Mbc3Step_IgnoresLatch(c, elapsed) ==
    With(c.background_secs + (IF ReadHalt(c) THEN 0 ELSE elapsed),
         LAMBDA background_secs :
             IF background_secs >= 4
             THEN [RtcCarry(c, background_secs \div 4)
                       EXCEPT !.background_secs = background_secs % 4]
             ELSE [c EXCEPT !.background_secs = background_secs])

\* Mbc3::step after `elapsed` quarters of a second of host time since the last
\* step (Instant::elapsed): a halted clock gathers nothing; whole seconds
\* gathered move the registers on unless they are latched.
Mbc3Step(c, elapsed) ==
    With(c.background_secs + (IF ReadHalt(c) THEN 0 ELSE elapsed),
         LAMBDA background_secs :
             IF background_secs >= 4 /\ c.latch_state # "Latched"
             THEN [RtcCarry(c, background_secs \div 4)
                       EXCEPT !.background_secs = background_secs % 4]
             ELSE [c EXCEPT !.background_secs = background_secs])

\* Cartridge::step
CartridgeStep(c, elapsed) ==
    IF c.cartridge_type = "Mbc3" THEN Mbc3Step(c, elapsed) ELSE c
---------------------------------------------------------------------------
(* The cartridge as the bus drives it: Bus::read_byte_address and          *)
(* Bus::write_byte_address pass every access to 0x0000-0x7FFF (boot ROM    *)
(* disabled) and 0xA000-0xBFFF on to Cartridge::read and Cartridge::write. *)

MaxCartridgeAccesses == 4

\* Nothing observed yet of the cartridge: the accesses made, the kind of the
\* last one, its address, the byte stored or returned, whether every access
\* so far completed, and the last bytes stored to 0x2000-0x3FFF and to
\* 0x4000-0x5FFF (-1 for none).
CObsNone ==
    [accesses |-> 0, last |-> "init", address |-> 0, value |-> 0, completed |-> TRUE,
     bank1_written |-> -1, bank2_written |-> -1]

NotCartridge == <<cpu, bus, timer, joypad, ppu, obs, tobs, pobs>>

\* Cartridge::new: an image of 2, 4, 64, 72 or 128 ROM banks; no RAM, 8 KiB or
\* 32 KiB by the header for NoMbc (8 KiB at most) and Mbc1.
InitCartridge ==
    /\ cpu = CpuDefault /\ timer = TimerDefault /\ joypad = JoypadDefault
    /\ ppu = PpuDefault /\ obs = ObsNone /\ tobs = TObsNone /\ pobs = PObsNone
    /\ bus = [BusDefault EXCEPT !.boot_rom_enabled = FALSE]
    /\ \/ \E ram_banks \in {0, 1} : cartridge = NewCartridge("NoMbc", 2, ram_banks)
       \/ \E rom_banks \in {2, 4, 64, 72, 128}, ram_banks \in {0, 1, 4} :
             cartridge = NewCartridge("Mbc1", rom_banks, ram_banks)
       \/ \E rom_banks \in {2, 4, 64} :
             cartridge = NewCartridge("Mbc3", rom_banks, 2 * rom_banks)
    /\ dobs = CObsNone

\* The addresses the specification accesses: one in each register range, the
\* first and the last byte of the switchable ROM area, and the first byte of
\* cartridge RAM.
CanAccessCartridge ==
    /\ dobs.accesses < MaxCartridgeAccesses
    /\ dobs.completed

\* Bus::read_byte_address on a cartridge address
CartridgeReadAccess ==
    /\ CanAccessCartridge
    /\ \E address \in {0, 16384, 32767, 40960} :
          ThenBoth(CartridgeTypeRead(cartridge, address),
               LAMBDA value, completed :
                   /\ dobs' = [dobs EXCEPT !.accesses = @ + 1, !.last = "read",
                                           !.address = address, !.value = value,
                                           !.completed = completed]
                   /\ UNCHANGED cartridge)
    /\ UNCHANGED NotCartridge

\* Bus::write_byte_address on a cartridge address
CartridgeWriteAccess ==
    /\ CanAccessCartridge
    /\ \E address \in {0, 8192, 16384, 24576, 40960}, value \in {0, 1, 10, 33, 96, 255} :
          ThenBoth(CartridgeTypeWrite(cartridge, value, address),
               LAMBDA c, completed :
                   /\ cartridge' = c
                   /\ dobs' = [dobs EXCEPT
                         !.accesses = @ + 1, !.last = "write",
                         !.address = address, !.value = value,
                         !.completed = completed,
                         !.bank1_written = IF address = 8192 THEN value ELSE @,
                         !.bank2_written = IF address = 16384 THEN value ELSE @])
    /\ UNCHANGED NotCartridge

NextCartridge == CartridgeReadAccess \/ CartridgeWriteAccess

SpecCartridge == InitCartridge /\ [][NextCartridge]_vars
---------------------------------------------------------------------------
(* Cartridge::new (src/cartridge.rs).  An image is carried as its length   *)
(* and the header bytes that construction looks at: one byte of the title  *)
(* (0x134, the rest of the title zero), the type code (0x147), the ROM and *)
(* RAM size codes (0x148, 0x149) and the header checksum (0x14D); the      *)
(* bytes 0x144-0x146 and 0x14A-0x14C are zero.                             *)

\* match data[0x148]: the expected length in bytes, -1 for unimplemented!()
ExpectedRomSize(code) ==
    CASE code \in 0 .. 8 -> 32768 * Pow2(code)
      [] code = 82 -> 1179648
      [] code = 83 -> 1310720
      [] code = 84 -> 1572864
      [] OTHER -> -1

\* match data[0x149]: the RAM size in bytes, -1 for unreachable!()
RamSizeOf(code) ==
    CASE code \in {0, 1} -> 0
      [] code = 2 -> 8192
      [] code = 3 -> 32768
      [] code = 4 -> 131072
      [] code = 5 -> 65536
      [] OTHER -> -1

\* The loop over data[0x134..=0x14C]: wrapping_sub(byte).wrapping_sub(1) for
\* each of the 25 bytes, starting from 0.
HeaderChecksum(image) ==
    (256 * 26 - (image.title + image.type_code + image.rom_size_code
                 + image.ram_size_code) - 25) % 256

\* match cartridge_type_code
VariantOf(type_code) ==
    CASE type_code = 0 -> "NoMbc"
      [] type_code \in {1, 2, 3} -> "Mbc1"
      [] type_code \in {15, 16, 17, 18, 19} -> "Mbc3"
      [] OTHER -> "todo"

\* The RAM sizes NoMbc::new and Mbc1::new accept; Mbc3::new takes none.
RamSizeAccepted(variant, ram_size) ==
    CASE variant = "NoMbc" -> ram_size \in {0, 8192}
      [] variant = "Mbc1" -> ram_size \in {0, 8192, 32768}
      [] OTHER -> TRUE

\* Cartridge::new: "Ok", "Err" or "Panic", in the order of the checks.
CartridgeNewOutcome(image) ==
    IF image.length < 32768 THEN "Panic"
    ELSE IF ExpectedRomSize(image.rom_size_code) = -1 THEN "Panic"
    ELSE IF image.length # ExpectedRomSize(image.rom_size_code) THEN "Err"
    ELSE IF RamSizeOf(image.ram_size_code) = -1 THEN "Panic"
    ELSE IF HeaderChecksum(image) # image.checksum THEN "Err"
    ELSE IF VariantOf(image.type_code) = "todo" THEN "Panic"
    ELSE IF ~RamSizeAccepted(VariantOf(image.type_code), RamSizeOf(image.ram_size_code))
    THEN "Err"
    ELSE "Ok"

\* The cartridge of Ok(Cartridge { .. })
CartridgeOf(image) ==
    NewCartridge(VariantOf(image.type_code), image.length \div 16384,
                 IF VariantOf(image.type_code) = "Mbc3" THEN image.length \div 8192
                 ELSE RamSizeOf(image.ram_size_code) \div 8192)

\* No cartridge constructed yet.
NoCartridge == [cartridge_type |-> "None"]

\* Nothing observed yet of the construction: the image handed in and how the
\* call ended ("none" before it).
NObsNone(image) == [image |-> image, outcome |-> "none"]

InitNew ==
    /\ cpu = CpuDefault /\ timer = TimerDefault /\ joypad = JoypadDefault
    /\ ppu = PpuDefault /\ obs = ObsNone /\ tobs = TObsNone /\ pobs = PObsNone
    /\ bus = BusDefault
    /\ cartridge = NoCartridge
    /\ \E length \in {16384, 32768, 32769, 65536, 1179648},
          title \in {0, 65}, type_code \in {0, 1, 5, 19, 252},
          rom_size_code \in {0, 1, 9, 82, 255}, ram_size_code \in {0, 2, 3, 4, 6},
          checksum_error \in {0, 1} :
          dobs = NObsNone(
              [length |-> length, title |-> title, type_code |-> type_code,
               rom_size_code |-> rom_size_code, ram_size_code |-> ram_size_code,
               checksum |->
                   (HeaderChecksum([title |-> title, type_code |-> type_code,
                                    rom_size_code |-> rom_size_code,
                                    ram_size_code |-> ram_size_code])
                    + checksum_error) % 256])

\* Cartridge::new(data)
Construct ==
    /\ dobs.outcome = "none"
    /\ dobs' = [dobs EXCEPT !.outcome = CartridgeNewOutcome(dobs.image)]
    /\ cartridge' = IF CartridgeNewOutcome(dobs.image) = "Ok"
                    THEN CartridgeOf(dobs.image) ELSE cartridge
    /\ UNCHANGED <<cpu, bus, timer, joypad, ppu, obs, tobs, pobs>>

NextNew == Construct

SpecNew == InitNew /\ [][NextNew]_vars
---------------------------------------------------------------------------
(* Two systems built from one cartridge image and driven by the same calls: *)
(* the cartridge of the first is `cartridge`, that of the second is kept    *)
(* beside it.  Each Cartridge::step reads the host clock of its own system. *)

MaxTwinSteps == 3
MaxTwinAccesses == 3

\* The host time between two steps, in quarters of a second: 0.25 s, 1 s and
\* 2.25 s
ElapsedTimes == {1, 4, 9}

\* The clock registers the program has set before the runs are compared:
\* seconds, minutes, hours, day low, day high.  Midnight; the last second of
\* day 511; seconds past 59; the clock halted.
SetClocks ==
    {<<0, 0, 0, 0, 0>>, <<59, 59, 23, 255, 1>>, <<62, 0, 0, 0, 0>>, <<0, 0, 0, 0, 64>>}

\* The stores the program makes: the latch sequence, a clock register or a RAM
\* bank selected, a byte into the selected one.
TwinStores == {<<24576, 0>>, <<24576, 1>>, <<16384, 8>>, <<16384, 0>>, <<40960, 58>>}

\* 0xA000: the selected RAM bank or clock register
TwinLoads == {40960}

\* Nothing observed yet: the steps and accesses made, the kind of the last
\* action, the second system's cartridge, and the byte the last load returned
\* on each system.
WObsNone ==
    [steps |-> 0, accesses |-> 0, last |-> "init", cartridge |-> CartridgeDefault,
     value |-> 0, twin_value |-> 0]

NotTwin == <<cpu, bus, timer, joypad, ppu, obs, tobs, pobs>>

\* Cartridge::new on the same image, twice.  An MBC3 image has had its RAM
\* enabled, a clock register selected and the clock set by the same stores on
\* both systems.
InitTwin ==
    /\ cpu = CpuDefault /\ timer = TimerDefault /\ joypad = JoypadDefault
    /\ ppu = PpuDefault /\ obs = ObsNone /\ tobs = TObsNone /\ pobs = PObsNone
    /\ bus = [BusDefault EXCEPT !.boot_rom_enabled = FALSE]
    /\ \/ cartridge = NewCartridge("NoMbc", 2, 1)
       \/ cartridge = NewCartridge("Mbc1", 4, 1)
       \/ \E clock \in SetClocks :
             cartridge = [NewCartridge("Mbc3", 2, 4) EXCEPT
                             !.ram_enabled = TRUE, !.ram_bank = 8,
                             !.rtc = [r \in 8 .. 12 |-> clock[r - 7]]]
    /\ dobs = [WObsNone EXCEPT !.cartridge = cartridge]

\* Cartridge::step on each system, once per T-cycle of Bus::step_m_cycle; the
\* two host clocks need not agree.
TwinStep ==
    /\ dobs.steps < MaxTwinSteps
    /\ \E elapsed \in ElapsedTimes, twin_elapsed \in ElapsedTimes :
          /\ cartridge' = CartridgeStep(cartridge, elapsed)
          /\ dobs' = [dobs EXCEPT !.steps = @ + 1, !.last = "step",
                                  !.cartridge = CartridgeStep(@, twin_elapsed)]
    /\ UNCHANGED NotTwin

\* Cartridge::write of the same byte to the same address on each system
TwinStore ==
    /\ dobs.accesses < MaxTwinAccesses
    /\ \E store \in TwinStores :
          /\ CartridgeTypeWrite(cartridge, store[2], store[1])[2]
          /\ CartridgeTypeWrite(dobs.cartridge, store[2], store[1])[2]
          /\ cartridge' = CartridgeTypeWrite(cartridge, store[2], store[1])[1]
          /\ dobs' = [dobs EXCEPT
                        !.accesses = @ + 1, !.last = "write",
                        !.cartridge = CartridgeTypeWrite(@, store[2], store[1])[1]]
    /\ UNCHANGED NotTwin

\* Cartridge::read of the same address on each system
TwinLoad ==
    /\ dobs.accesses < MaxTwinAccesses
    /\ \E address \in TwinLoads :
          /\ CartridgeTypeRead(cartridge, address)[2]
          /\ CartridgeTypeRead(dobs.cartridge, address)[2]
          /\ dobs' = [dobs EXCEPT
                        !.accesses = @ + 1, !.last = "read",
                        !.value = CartridgeTypeRead(cartridge, address)[1],
                        !.twin_value = CartridgeTypeRead(dobs.cartridge, address)[1]]
    /\ UNCHANGED <<cartridge, cpu, bus, timer, joypad, ppu, obs, tobs, pobs>>

NextTwin == TwinStep \/ TwinStore \/ TwinLoad

SpecTwin == InitTwin /\ [][NextTwin]_vars
---------------------------------------------------------------------------
(* The clock of an MBC3 cartridge: Cartridge::step with the host time that  *)
(* passed, and the stores and loads of the program.                         *)

MaxRtcSteps == 4
MaxRtcAccesses == 4

\* The clock as the program has set it: midnight of day 0, the last second of
\* day 511, midnight with the clock halted.
RtcClocks == {<<0, 0, 0, 0, 0>>, <<59, 59, 23, 255, 1>>, <<0, 0, 0, 0, 64>>}

\* The stores the program makes: 0, 1 and 2 to the latch register, the
\* seconds register or the day-high register selected, a byte into the
\* selected one (which leaves a halted clock halted and a running one running).
RtcStores ==
    {<<24576, 0>>, <<24576, 1>>, <<32767, 1>>, <<24576, 2>>,
     <<16384, 8>>, <<40960, 58>>}

\* The seconds the clock registers stand for: a day counter of 9 bits.
RtcSeconds(c) ==
    c.rtc[8] + 60 * c.rtc[9] + 3600 * c.rtc[10]
        + 86400 * (c.rtc[11] + 256 * (c.rtc[12] % 2))

\* The seconds from one reading of the clock to the next, the day counter
\* wrapping after 512 days.
RtcSecondsBetween(b, a) == (RtcSeconds(a) - RtcSeconds(b)) % (512 * 86400)

\* Nothing observed yet: the steps and accesses made, the kind of the last
\* action, the cartridge before it, the byte of the last load, the last two
\* bytes stored to the latch register (-1 for none), the host time that passed
\* while the clock was not halted, in quarters of a second, and the seconds
\* the registers moved on in the steps.
TObsRtc ==
    [steps |-> 0, accesses |-> 0, last |-> "init", before |-> CartridgeDefault,
     value |-> 0, latch_writes |-> <<-1, -1>>, host |-> 0, moved |-> 0]

\* Cartridge::new, then the stores that enable the RAM, select the seconds
\* register and set the clock.
InitRtc ==
    /\ cpu = CpuDefault /\ timer = TimerDefault /\ joypad = JoypadDefault
    /\ ppu = PpuDefault /\ obs = ObsNone /\ tobs = TObsNone /\ pobs = PObsNone
    /\ bus = [BusDefault EXCEPT !.boot_rom_enabled = FALSE]
    /\ \E clock \in RtcClocks :
          cartridge = [NewCartridge("Mbc3", 2, 4) EXCEPT
                          !.ram_enabled = TRUE, !.ram_bank = 8,
                          !.rtc = [r \in 8 .. 12 |-> clock[r - 7]]]
    /\ dobs = [TObsRtc EXCEPT !.before = cartridge]

\* Cartridge::step
RtcStep ==
    /\ dobs.steps < MaxRtcSteps
    /\ \E elapsed \in ElapsedTimes :
          /\ cartridge' = CartridgeStep(cartridge, elapsed)
          /\ dobs' = [dobs EXCEPT
                        !.steps = @ + 1, !.last = "step", !.before = cartridge,
                        !.host = @ + (IF ReadHalt(cartridge) THEN 0 ELSE elapsed),
                        !.moved = @ + RtcSecondsBetween(cartridge, cartridge')]
    /\ UNCHANGED NotTwin

\* Cartridge::write
RtcStore ==
    /\ dobs.accesses < MaxRtcAccesses
    /\ \E store \in RtcStores :
          /\ CartridgeTypeWrite(cartridge, store[2], store[1])[2]
          /\ cartridge' = CartridgeTypeWrite(cartridge, store[2], store[1])[1]
          /\ dobs' = [dobs EXCEPT
                        !.accesses = @ + 1, !.last = "write", !.before = cartridge,
                        !.value = store[2],
                        !.latch_writes =
                            IF store[1] >= 24576 /\ store[1] <= 32767
                            THEN <<@[2], store[2]>> ELSE @]
    /\ UNCHANGED NotTwin

\* Cartridge::read of the selected clock register
RtcLoad ==
    /\ dobs.accesses < MaxRtcAccesses
    /\ CartridgeTypeRead(cartridge, 40960)[2]
    /\ dobs' = [dobs EXCEPT !.accesses = @ + 1, !.last = "read", !.before = cartridge,
                            !.value = CartridgeTypeRead(cartridge, 40960)[1]]
    /\ UNCHANGED <<cartridge, cpu, bus, timer, joypad, ppu, obs, tobs, pobs>>

NextRtc == RtcStep \/ RtcStore \/ RtcLoad

SpecRtc == InitRtc /\ [][NextRtc]_vars
---------------------------------------------------------------------------
(* The sample queue of emulator-native: the emulator thread appends the    *)
(* stereo frame of Apu::sample through SamplesQueueInput::append while the *)
(* audio thread pulls single samples through SamplesQueueOutput::next.     *)
(* Both bodies run under the mutex of next_samples.                        *)

MaxQueueFrames == 4
MaxQueueCalls == 7

\* main builds the queue with samples_queue(2, 44_100); the queue of the
\* specification is built for 20 samples a second, so that it holds at most
\* two frames before next drops the oldest.
QueueChannels == 2
QueueSampleRate == 20

\* S::zero_value(), which belongs to neither channel.
ZeroValue == [channel |-> "zero", frame |-> -1]

\* samples_queue(channels, sample_rate), with the lock of the mutex, the
\* number of frames appended and of samples returned, the value that the
\* last call of next returned and the number of calls that found no sample.
SamplesQueue(channels, sample_rate) ==
    [next_samples |-> <<>>, last_output |-> ZeroValue, channels |-> channels,
     sample_rate |-> sample_rate, max_queued_samples |-> sample_rate \div 10,
     lock |-> "free", frames |-> 0, k |-> -1, returned |-> ZeroValue,
     popped |-> FALSE, underruns |-> 0, last |-> "none"]

\* Apu::sample: the left and the right sample of frame number frame.
StereoFrame(frame) ==
    <<[channel |-> "left", frame |-> frame], [channel |-> "right", frame |-> frame]>>

\* VecDeque::pop_front, which leaves an empty queue empty.
PopFront(samples) == IF samples = <<>> THEN samples ELSE Tail(samples)

RECURSIVE PopFrontTimes(_, _)
PopFrontTimes(samples, count) ==
    IF count = 0 THEN samples ELSE PopFrontTimes(PopFront(samples), count - 1)

\* "while next_samples.len() > max_queued_samples * channels { for _ in
\* 0..channels { pop_front } }"
RECURSIVE DropOverflow(_, _)
DropOverflow(q, samples) ==
    IF Len(samples) > q.max_queued_samples * q.channels
    THEN DropOverflow(q, PopFrontTimes(samples, q.channels))
    ELSE samples

\* SamplesQueueInput::append under the lock
QueueAppend(q, values) == [q EXCEPT !.next_samples = @ \o values]

\* SamplesQueueOutput::next under the lock; it returns last_output.
QueueNext(q) ==
    LET samples == DropOverflow(q, q.next_samples)
    IN  IF samples = <<>> THEN q
        ELSE [q EXCEPT !.next_samples = Tail(samples), !.last_output = Head(samples)]

NotQueue == <<cpu, bus, timer, joypad, ppu, obs, tobs, pobs, cartridge>>

InitQueue ==
    /\ cpu = CpuDefault /\ timer = TimerDefault /\ joypad = JoypadDefault
    /\ bus = BusDefault /\ ppu = PpuDefault
    /\ obs = ObsNone /\ tobs = TObsNone /\ pobs = PObsNone
    /\ cartridge = CartridgeDefault
    /\ dobs = SamplesQueue(QueueChannels, QueueSampleRate)

\* The emulator thread takes the lock.
AppendLock ==
    /\ dobs.lock = "free"
    /\ dobs.frames < MaxQueueFrames
    /\ dobs' = [dobs EXCEPT !.lock = "input", !.last = "lock"]
    /\ UNCHANGED NotQueue

\* The emulator thread extends the queue by a frame and drops the lock.
AppendExtend ==
    /\ dobs.lock = "input"
    /\ dobs' = [QueueAppend(dobs, StereoFrame(dobs.frames)) EXCEPT
                   !.lock = "free", !.frames = @ + 1, !.last = "append"]
    /\ UNCHANGED NotQueue

\* The audio thread takes the lock.
NextLock ==
    /\ dobs.lock = "free"
    /\ dobs.k + 1 < MaxQueueCalls
    /\ dobs' = [dobs EXCEPT !.lock = "output", !.last = "lock"]
    /\ UNCHANGED NotQueue

\* The audio thread drops what overflows, pops a sample if there is one,
\* returns and drops the lock.
NextPop ==
    /\ dobs.lock = "output"
    /\ dobs' = [QueueNext(dobs) EXCEPT
                   !.lock = "free", !.k = @ + 1, !.last = "next",
                   !.returned = QueueNext(dobs).last_output,
                   !.popped = DropOverflow(dobs, dobs.next_samples) # <<>>,
                   !.underruns = IF DropOverflow(dobs, dobs.next_samples) = <<>>
                                 THEN @ + 1 ELSE @]
    /\ UNCHANGED NotQueue

NextQueue == AppendLock \/ AppendExtend \/ NextLock \/ NextPop

SpecQueue == InitQueue /\ [][NextQueue]_vars
---------------------------------------------------------------------------
(* Claims about the timer.                                                 *)

\* The tick-counter bit that C8 names for the control's low two bits.
ClaimedBit(tac) ==
    CASE tac % 4 = 1 -> 3 [] tac % 4 = 2 -> 5 [] tac % 4 = 3 -> 7 [] tac % 4 = 0 -> 9

\* C8: from tick_counter = 0, with TAC enabled and selecting bit k and no
\* timer register written, TIMA has been incremented exactly once per 2^(k+1)
\* timer steps (at the steps that make the tick counter a multiple of 2^(k+1),
\* where bit k falls): until the first overflow TIMA = start + n div 2^(k+1),
\* after the reload that follows it TIMA goes on from TMA at the same rate;
\* with the enable bit clear TIMA is never changed by a step.
C8_TimaRate ==
    LET period == Pow2(ClaimedBit(timer.timer_control) + 1)
        count  == tobs.tima0 + tobs.n \div period
        n0     == (256 - tobs.tima0) * period
    IN  /\ timer.timer_control >= 4 /\ count <= 255
            => timer.timer_counter = count
        /\ timer.timer_control >= 4 /\ count >= 256 /\ tobs.n >= n0 + 4
             /\ timer.timer_modulo + count - 256 <= 255
            => timer.timer_counter = timer.timer_modulo + count - 256
        /\ timer.timer_control < 4 => timer.timer_counter = tobs.tima0

\* C8's case: bit 7 selected, 512 steps taken, TIMA two above its start.
C8_Witness ==
    /\ timer.timer_control = 7
    /\ tobs.n = 512
    /\ timer.tick_counter = 512
    /\ timer.timer_counter = tobs.tima0 + 2

\* C9 as stated: after a step overflows TIMA it reads 0, no interrupt is
\* latched during the next three steps, and the fourth step loads TMA and
\* latches the interrupt, once.
C9_Claim ==
    /\ tobs.since = 0 /\ tobs.last = "step" => timer.timer_counter = 0
    /\ tobs.since \in 0 .. 3 => tobs.irqs_since = 0
    /\ tobs.since = 4 /\ tobs.last = "step"
          => timer.timer_counter = timer.timer_modulo /\ tobs.irqs_since = 1
    /\ tobs.since >= 4 /\ ~tobs.wovf => tobs.irqs_since = 1

\* C9 amended: the same, provided the CPU does not write TIMA between the
\* overflow and the fourth step after it.
C9_ReloadAfterFourSteps ==
    /\ tobs.since = 0 /\ tobs.last = "step" => timer.timer_counter = 0
    /\ tobs.since \in 0 .. 3 => tobs.irqs_since = 0
    /\ tobs.since \in 0 .. 3 /\ ~tobs.dirty => timer.timer_counter = 0
    /\ tobs.since = 4 /\ tobs.last = "step" /\ ~tobs.dirty
          => timer.timer_counter = timer.timer_modulo /\ tobs.irqs_since = 1
    /\ tobs.since >= 4 /\ ~tobs.dirty /\ ~tobs.wovf => tobs.irqs_since = 1

\* C9's case: the fourth step after an overflow has just reloaded TIMA from a
\* TMA written during the delay, and delivered the interrupt.
C9_Witness ==
    /\ tobs.since = 4 /\ tobs.last = "step" /\ ~tobs.dirty
    /\ timer.timer_modulo = 153
    /\ timer.timer_counter = 153
    /\ tobs.irqs_since = 1

\* C10 as stated: a CPU write of any value to TIMA during the reload delay
\* cancels the reload and the interrupt of that overflow.
C10_Claim ==
    tobs.since = 4 /\ tobs.last = "step" /\ tobs.dirty
        => timer.timer_counter = tobs.wval /\ tobs.irqs_since = 0

---------------------------------------------------------------------------
(* Claims about stores to DIV and TAC.                                     *)

\* The selected-bit signal: the tick-counter bit that TAC selects, or 0 when
\* the timer is disabled.
SelectedBitSignal(t) ==
    /\ Bit(t.timer_control, 2) = 1
    /\ Bit(t.tick_counter, ClaimedBit(t.timer_control)) = 1

\* C11 as stated: a write to DIV zeroes tick_counter (DIV reads 0), a write to
\* TAC installs the value; TIMA is its old value plus one (an 8-bit increment)
\* when the selected-bit signal was 1 before the write and is 0 after it, and
\* its old value otherwise.
C11_Claim ==
    tobs.last \in {"DIV", "TAC"} =>
        /\ tobs.last = "DIV" =>
               timer.tick_counter = 0 /\ GetDividerRegister(timer) = 0
        /\ tobs.last = "TAC" => timer.timer_control = tobs.written
        /\ timer.timer_counter =
               IF SelectedBitSignal(tobs.before) /\ ~SelectedBitSignal(timer)
               THEN (tobs.before.timer_counter + 1) % 256
               ELSE tobs.before.timer_counter

---------------------------------------------------------------------------
(* Claims about the PPU.                                                   *)

\* The index of (lcd_y, dot) in row-major order.
RowMajor(p) == p.lcd_y * 456 + p.dot

\* C12: dot is in 0..455 and lcd_y in 0..153; with the LCD on, every PPU step
\* moves (lcd_y, dot) to its row-major successor, so n steps after the LCD was
\* switched on the PPU is at position n mod 70224: lcd_y keeps each value for
\* 456 steps and comes back to it after 70224 steps.
C12_Geometry ==
    /\ ppu.dot \in 0 .. 455
    /\ ppu.lcd_y \in 0 .. 153
    /\ pobs.last = "step" /\ GetLcdPpuEnable(pobs.before)
          => RowMajor(ppu) = (RowMajor(pobs.before) + 1) % 70224
    /\ GetLcdPpuEnable(ppu) => RowMajor(ppu) = pobs.n % 70224

\* C12's case: one frame and 5 lines and 7 dots after the start, the PPU is at
\* dot 7 of line 5 again.
C12_Witness ==
    /\ pobs.n = 70224 + 5 * 456 + 7
    /\ ppu.lcd_y = 5
    /\ ppu.dot = 7

\* The mode bits the claim gives for the step that processed dot d of line y.
ClaimedMode(y, d) ==
    IF y <= 143
    THEN IF d <= 79 THEN 2 ELSE IF d <= 251 THEN 3 ELSE 0
    ELSE 1

\* C13: with the LCD on, after the step that processed dot d of line y the
\* mode bits of STAT are 2 for d in 0..79, 3 for d in 80..251 and 0 for d in
\* 252..455 of the lines 0..143, and 1 on the lines 144..153; a CPU store to
\* STAT leaves the mode bits as they were.
C13_Modes ==
    /\ pobs.last = "step" /\ GetLcdPpuEnable(pobs.before)
          => ppu.stat % 4 = ClaimedMode(pobs.before.lcd_y, pobs.before.dot)
    /\ pobs.last = "STAT" => ppu.stat % 4 = pobs.before.stat % 4

\* C13's case: a store of 0xFF to STAT during pixel transfer set the four
\* source bits and left the mode at 3.
C13_Witness ==
    /\ pobs.last = "STAT"
    /\ pobs.before.stat % 4 = 3
    /\ pobs.before.stat \div 8 = 0
    /\ ppu.stat % 4 = 3
    /\ (ppu.stat \div 8) % 16 = 15
    /\ ppu.dot \in 80 .. 251

\* C14: with the LCD on, the step that processes dot 0 of line 144, and no
\* other, latches the V-blank pulse; IF bit 0 is set and the latch taken
\* within the same bus tick; n steps after the start there has been one pulse
\* for each time the PPU passed that position, once per 70224 steps.
C14_VblankOncePerFrame ==
    /\ pobs.last = "step" /\ GetLcdPpuEnable(pobs.before)
          => (pobs.vblank_pulse <=> pobs.before.lcd_y = 144 /\ pobs.before.dot = 0)
    /\ pobs.vblank_pulse => Bit(bus.interrupt_flag, 0) = 1
    /\ ~ppu.vblank_interrupt_waiting
    /\ pobs.vblanks = (pobs.n + 70224 - (144 * 456 + 1)) \div 70224
    /\ Bit(bus.interrupt_flag, 0) = 1 <=> pobs.vblanks >= 1

\* C14's case: the second frame's step at dot 0 of line 144 has just latched
\* the second pulse.
C14_Witness ==
    /\ pobs.vblank_pulse
    /\ pobs.n = 70224 + 144 * 456 + 1
    /\ pobs.vblanks = 2
    /\ ppu.lcd_y = 144 /\ ppu.dot = 1
    /\ Bit(bus.interrupt_flag, 0) = 1

\* The STAT line as the claim defines it: the LY==LYC flag with its source
\* enabled, or the source of the current mode enabled (mode 3 has none).
StatLine(p) ==
    \/ Bit(p.stat, 2) = 1 /\ Bit(p.stat, 6) = 1
    \/ p.stat % 4 = 0 /\ Bit(p.stat, 3) = 1
    \/ p.stat % 4 = 1 /\ Bit(p.stat, 4) = 1
    \/ p.stat % 4 = 2 /\ Bit(p.stat, 5) = 1

\* C15 as stated: a PPU step or a register store latches a STAT pulse if and
\* only if the STAT line is 0 before it and 1 after it.
C15_Claim ==
    pobs.last \in {"step", "STAT", "LYC", "LCDC"} /\ ~pobs.before.stat_interrupt_waiting
        => (pobs.stat_pulse <=> ~StatLine(pobs.before) /\ StatLine(ppu))


\* The STAT line of a PPU whose LCD is on, with LY compared to LYC as the
\* registers stand.
StatLineOf(p) ==
    /\ GetLcdPpuEnable(p)
    /\ \/ StatInterruptSourceEnabled(p, "LycEqualsLy") /\ p.lcd_y = p.lcd_y_compare
       \/ ModeInterruptLine(p, GetStatMode(p))

\* C29: a store to STAT, LYC or LCDC that raises the STAT line from 0 to 1
\* latches the STAT interrupt itself, before any further PPU step.
C29_Claim ==
    (pobs.last \in {"STAT", "LYC", "LCDC"}
        /\ ~StatLineOf(pobs.before) /\ StatLineOf(ppu)) =>
        ppu.stat_interrupt_waiting
---------------------------------------------------------------------------

\* C38: the hidden window line counter increases by at most one per scanline.
\* It is 0 at the start of every frame, and it never exceeds 144, whatever
\* stores to WX, WY and LCDC (LCD off and on included) occur.
C38_Claim ==
    /\ ppu.window_lcd_y - dobs.line_start \in {0, 1}
    /\ dobs.frame_start => ppu.window_lcd_y = 0
    /\ ppu.window_lcd_y <= 144
---------------------------------------------------------------------------

\* C39: for both palette memories and every palette address, a load from the
\* data register after a store of v to it with auto-increment off returns v
\* for an even address and v & 0x7F for an odd address.
C39_Claim ==
    (/\ dobs.last = "load"
     /\ dobs.stored[dobs.register].address >= 0)
    => dobs.value = IF dobs.stored[dobs.register].address % 2 = 0
                    THEN dobs.stored[dobs.register].value
                    ELSE BitAnd(dobs.stored[dobs.register].value, 127)
---------------------------------------------------------------------------
(* VRAM DMA: H-blank transfers and general-purpose transfers.              *)

\* The tile data after count bytes were copied from work RAM at source to
\* VRAM at destination.
CopiedTo(vram, wram, source, destination, count) ==
    [a \in DOMAIN vram |->
        IF a + 32768 >= destination /\ a + 32768 < destination + count
        THEN wram[a + 32768 - destination + source - 49152]
        ELSE vram[a]]

\* The DMA engine copied count bytes (none when count is 0) during the last
\* action and advanced both addresses by as many.
DmaCopied(count) ==
    /\ bus.dma_source = dobs.before.dma_source + count
    /\ bus.dma_destination = dobs.before.dma_destination + count
    /\ ppu.tile_data = CopiedTo(dobs.vram_before, bus.wram_banks[0],
                                dobs.before.dma_source, dobs.before.dma_destination,
                                count)

\* C16: after a store to HDMA5 with bit 7 set and length n, an M-cycle copies
\* one 16-byte block, advancing source and destination by 16, exactly when
\* the PPU entered H-blank in it and the transfer has not ended; no other
\* M-cycle copies anything; after n+1 H-blank entries no block is left and the
\* transfer is no longer active, unless it was aborted.
C16_HblankBlocks ==
    dobs.last = "tick" =>
        /\ IF dobs.hblank_entered /\ dobs.before.hblank_dma_ongoing
           THEN DmaCopied(DMA_BLOCK_SIZE)
           ELSE DmaCopied(0)
        /\ IF dobs.length >= 0
           THEN /\ bus.hblank_dma_blocks_left = dobs.length + 1 - dobs.entries
                /\ bus.hblank_dma_ongoing = (dobs.entries < dobs.length + 1)
           ELSE ~bus.hblank_dma_ongoing

\* The second and last block of a transfer of length 1 has just been copied.
C16_Witness ==
    /\ dobs.last = "tick" /\ dobs.hblank_entered
    /\ dobs.length = 1 /\ dobs.entries = 2
    /\ dobs.before.hblank_dma_ongoing /\ ~bus.hblank_dma_ongoing
    /\ bus.hblank_dma_blocks_left = 0
    /\ ppu.tile_data[31] = bus.wram_banks[0][31] /\ ppu.tile_data[31] # 0

\* C17: a store to HDMA5 with bit 7 clear and length n copies (n+1)*16 bytes
\* within the store when no H-blank transfer is active; while one is active
\* it copies nothing and ends that transfer.
C17_Claim ==
    (dobs.last = "hdma5" /\ dobs.written < 128) =>
        IF ~dobs.before.hblank_dma_ongoing
        THEN DmaCopied((dobs.written + 1) * DMA_BLOCK_SIZE)
        ELSE DmaCopied(0) /\ ~bus.hblank_dma_ongoing
---------------------------------------------------------------------------

\* C37: every byte copied by general or H-blank HDMA is written to an address
\* inside VRAM (0x8000-0x9FFF), for every programmed destination and length.
C37_Claim ==
    \A address \in dobs.copied : address >= 32768 /\ address <= 40959
---------------------------------------------------------------------------
(* Joypad interrupt.                                                       *)

\* C18: when set_button_pressed took a button from released to pressed, the
\* joypad's interrupt pulse is latched, and after the next step_m_cycle or
\* poll_interrupt IF bit 4 is set (or that poll returned the joypad source).
C18_Claim ==
    /\ dobs.pending => joypad.interrupt_waiting
    /\ dobs.due => (Bit(bus.interrupt_flag, 4) = 1 \/ dobs.took = 4)
---------------------------------------------------------------------------
(* Cartridge banking.                                                      *)

\* BANK1 and BANK2 as the claim derives them from the stores made so far.
ClaimedBank1 ==
    IF dobs.bank1_written = -1 \/ dobs.bank1_written % 32 = 0 THEN 1
    ELSE dobs.bank1_written % 32

ClaimedBank2 == IF dobs.bank2_written = -1 THEN 0 ELSE dobs.bank2_written % 4

\* C19: on an MBC1 cartridge with N ROM banks a read at 0x4000 + off returns
\* byte off of ROM bank ((b2 << 5) | b1) mod N, b1 and b2 being the low 5 and
\* low 2 bits of the last stores to 0x2000-0x3FFF and 0x4000-0x5FFF (b1 = 1
\* for 0 and initially, b2 = 0 initially), whatever the mode flag.
C19_SwitchableBank ==
    (/\ cartridge.cartridge_type = "Mbc1" /\ dobs.last = "read"
     /\ dobs.address >= 16384 /\ dobs.address <= 32767) =>
        /\ dobs.completed
        /\ dobs.value = RomByte((ClaimedBank2 * 32 + ClaimedBank1) % cartridge.rom_banks,
                                dobs.address - 16384)

\* Bank 0x21 of 64 read at 0x7FFF in the advanced banking mode.
C19_Witness ==
    /\ cartridge.cartridge_type = "Mbc1" /\ cartridge.rom_banks = 64
    /\ dobs.last = "read" /\ dobs.address = 32767
    /\ dobs.bank1_written = 33 /\ dobs.bank2_written = 33
    /\ ~cartridge.simple_rom_banking
    /\ dobs.value = RomByte(33, 16383)

\* C20: whatever was stored to 0x0000-0x7FFF, every read and every write in
\* 0x0000-0x7FFF and 0xA000-0xBFFF completes, on every cartridge variant.
C20_Claim == dobs.completed
---------------------------------------------------------------------------
(* Cartridge construction.                                                 *)

\* The images the claim calls invalid: unknown ROM-size code, a length other
\* than the one the code encodes, a header checksum that does not match, or an
\* unsupported type code.
InvalidImage(image) ==
    \/ ExpectedRomSize(image.rom_size_code) = -1
    \/ image.length # ExpectedRomSize(image.rom_size_code)
    \/ HeaderChecksum(image) # image.checksum
    \/ VariantOf(image.type_code) = "todo"

\* C21: for every invalid image, construction returns an error and exposes no
\* cartridge; it does not panic.
C21_Claim ==
    (dobs.outcome # "none" /\ InvalidImage(dobs.image)) =>
        dobs.outcome = "Err" /\ cartridge = NoCartridge
---------------------------------------------------------------------------
(* The APU.                                                                *)

\* The last action was an Apu::step that was a frame sequencer tick.
ApuTicked ==
    dobs.last = "step" /\ dobs.before.channel_1.clock % SEQUENCER_CLOCK_PERIOD = 0

\* Over the tick from b to a of one channel: the length counter went down by
\* one if the index was in {0, 2, 4, 6}, the flag was set and the counter was
\* not 0, and kept its value otherwise; the index advanced.
LengthClockedAsClaimed(b, a, length_enable) ==
    /\ a.length_counter =
           IF b.frame_sequencer_idx \in {0, 2, 4, 6} /\ length_enable
           THEN SaturatingDec(b.length_counter) ELSE b.length_counter
    /\ a.frame_sequencer_idx = (b.frame_sequencer_idx + 1) % 8

\* Over the tick from b to a: off index 7 the envelope timer and volume keep
\* their values, and on it a timer above 1 goes down by one.
EnvelopeClockedAsClaimed(b, a) ==
    IF b.frame_sequencer_idx = 7
    THEN b.envelope_ticks_left > 1 => a.envelope_ticks_left = b.envelope_ticks_left - 1
    ELSE /\ a.envelope_ticks_left = b.envelope_ticks_left
         /\ a.current_envelope_volume = b.current_envelope_volume

\* Over the tick from b to a of channel 1: off indices 2 and 6 the sweep timer
\* keeps its value, and on them a timer above 1 goes down by one.
SweepClockedAsClaimed(b, a) ==
    IF b.frame_sequencer_idx \in {2, 6}
    THEN b.sweep_ticks_left > 1 => a.sweep_ticks_left = b.sweep_ticks_left - 1
    ELSE a.sweep_ticks_left = b.sweep_ticks_left

\* C22: on a frame sequencer tick at index i every channel clocks its length
\* counter iff i is in {0, 2, 4, 6} and its length-enable flag is set, its
\* envelope iff i = 7, channel 1 its sweep iff i is in {2, 6}, and the index
\* becomes (i + 1) mod 8.
C22_Claim ==
    ApuTicked =>
        /\ LengthClockedAsClaimed(dobs.before.channel_1, bus.apu.channel_1,
                                  StopWhenLengthExpires(dobs.before.channel_1))
        /\ LengthClockedAsClaimed(dobs.before.channel_2, bus.apu.channel_2,
                                  StopWhenLengthExpires(dobs.before.channel_2))
        /\ LengthClockedAsClaimed(dobs.before.channel_3, bus.apu.channel_3,
                                  StopWhenLengthExpires(dobs.before.channel_3))
        /\ LengthClockedAsClaimed(dobs.before.channel_4, bus.apu.channel_4,
                                  Channel4StopWhenLengthExpires(dobs.before.channel_4))
        /\ EnvelopeClockedAsClaimed(dobs.before.channel_1, bus.apu.channel_1)
        /\ EnvelopeClockedAsClaimed(dobs.before.channel_2, bus.apu.channel_2)
        /\ EnvelopeClockedAsClaimed(dobs.before.channel_4, bus.apu.channel_4)
        /\ SweepClockedAsClaimed(dobs.before.channel_1, bus.apu.channel_1)

\* The last action was a store to the NRx4 at address with bit 7 set.
Triggered(address) ==
    dobs.last = "write" /\ dobs.address = address /\ Bit(dobs.value, 7) = 1

\* The upper five bits of NRx2 are not all zero.
DacOn(c) == c.volume_envelope \div 8 # 0

\* The sweep calculation on the frequency the registers of channel 1 hold
ImmediateSweep(c) ==
    IF GetSweepIncrease(c)
    THEN GetChannelFrequency(c) + (GetChannelFrequency(c) \div Pow2(GetSweepShift(c)))
    ELSE GetChannelFrequency(c) - (GetChannelFrequency(c) \div Pow2(GetSweepShift(c)))

\* C23: right after a store that triggers a channel, the channel is enabled
\* iff its DAC is on and, for channel 1 with a sweep shift other than 0, the
\* immediate sweep calculation does not exceed 2047.
C23_Claim ==
    /\ Triggered(65300) =>
           (bus.apu.channel_1.enabled <=>
               /\ DacOn(bus.apu.channel_1)
               /\ (GetSweepShift(bus.apu.channel_1) # 0
                      => ImmediateSweep(bus.apu.channel_1) <= 2047))
    /\ Triggered(65305) => (bus.apu.channel_2.enabled <=> DacOn(bus.apu.channel_2))
    /\ Triggered(65310) => (bus.apu.channel_3.enabled <=> GetSoundPlayback(bus.apu.channel_3))
    /\ Triggered(65315) => (bus.apu.channel_4.enabled <=> DacOn(bus.apu.channel_4))

\* C24: while the power bit of NR52 is clear, NR52 reads bits 0..3 as 0.
C24_Claim ==
    ~bus.apu.all_sound_on => ReadNr52(bus.apu) % 16 = 0

\* Over the trigger from b to a of one channel by the last store: a length
\* counter found at 0 is reloaded to max, or to max - 1 when the store sets
\* length enable and the next frame sequencer step is not in {0, 2, 4, 6}.
ReloadedAsClaimed(b, a, max) ==
    b.length_counter = 0 =>
        a.length_counter =
            IF Bit(dobs.value, 6) = 1 /\ b.frame_sequencer_idx \notin {0, 2, 4, 6}
            THEN max - 1 ELSE max

\* C31: a trigger that finds the length counter of its channel at 0 reloads
\* it to 64 (256 for channel 3), or to 63 (255) when length enable is set and
\* the upcoming frame sequencer step does not clock the length.
C31_Claim ==
    /\ Triggered(65300) =>
           ReloadedAsClaimed(dobs.before.channel_1, bus.apu.channel_1, 64)
    /\ Triggered(65305) =>
           ReloadedAsClaimed(dobs.before.channel_2, bus.apu.channel_2, 64)
    /\ Triggered(65310) =>
           ReloadedAsClaimed(dobs.before.channel_3, bus.apu.channel_3, 256)
    /\ Triggered(65315) =>
           ReloadedAsClaimed(dobs.before.channel_4, bus.apu.channel_4, 64)
---------------------------------------------------------------------------
(* The noise generator.                                                     *)

\* d * 2^s for the divisor code and the shift clock of NR43
NoisePeriod(polynomial_counter) ==
    (IF polynomial_counter % 8 = 0 THEN 8 ELSE 16 * (polynomial_counter % 8))
        * Pow2(polynomial_counter \div 16)

\* C34: for every divisor code c and shift clock s the noise timer is loaded
\* with d * 2^s exactly, d = 8 for c = 0 and 16 * c otherwise, and the shift
\* register is clocked once every d * 2^s steps.
C34_Claim ==
    /\ (dobs.last = "trigger" \/ dobs.clocked) =>
           dobs.noise.noise_ticks_left = NoisePeriod(dobs.noise.polynomial_counter)
    /\ dobs.clocked => dobs.ran = NoisePeriod(dobs.noise.polynomial_counter)
---------------------------------------------------------------------------
(* The frequency sweep of channel 1.                                        *)

\* shadow + (shadow >> shift), or shadow - (shadow >> shift) in negate mode,
\* for the sweep register of c
SweepOf(shadow, c) ==
    IF Bit(c.sweep, 3) = 0 THEN shadow + (shadow \div Pow2(c.sweep % 8))
    ELSE shadow - (shadow \div Pow2(c.sweep % 8))

\* The last action was a frame sequencer tick on which channel 1 made a sweep
\* calculation: a sweep slot, the sweep timer run out, the sweep enabled and
\* its period not 0.
SweepSlotCalculation ==
    /\ ApuTicked
    /\ dobs.before.channel_1.frame_sequencer_idx \in {2, 6}
    /\ dobs.before.channel_1.sweep_ticks_left <= 1
    /\ dobs.before.channel_1.frequency_sweep_enabled
    /\ (dobs.before.channel_1.sweep \div 16) % 8 # 0

\* The frequency registers and the shadow frequency of a are those of b.
SameFrequency(b, a) ==
    /\ GetChannelFrequency(a) = GetChannelFrequency(b)
    /\ a.frequency_shadow = b.frequency_shadow

\* Over the tick from b to a: a result above 2047 disables the channel and
\* changes no frequency; a result that fits is written to the registers and to
\* the shadow when the shift is not 0, and a second result above 2047 then
\* disables the channel; with shift 0 nothing is written.
SweptAsClaimed(b, a) ==
    IF SweepOf(b.frequency_shadow, b) > 2047
    THEN ~a.enabled /\ SameFrequency(b, a)
    ELSE IF b.sweep % 8 # 0
    THEN /\ GetChannelFrequency(a) = SweepOf(b.frequency_shadow, b)
         /\ a.frequency_shadow = SweepOf(b.frequency_shadow, b)
         /\ SweepOf(SweepOf(b.frequency_shadow, b), b) > 2047 => ~a.enabled
    ELSE SameFrequency(b, a)

\* C32: a sweep calculation on a sweep slot that yields more than 2047
\* disables channel 1 and leaves the frequency registers and the shadow
\* frequency alone; a result of at most 2047 is written to both only when the
\* shift is not 0, and a second calculation then disables the channel if it
\* exceeds 2047; the shadow frequency and the channel frequency never exceed
\* 2047.
C32_SweepOverflow ==
    /\ SweepSlotCalculation => SweptAsClaimed(dobs.before.channel_1, bus.apu.channel_1)
    /\ (dobs.last \in {"step", "idle"} /\ ~SweepSlotCalculation)
           => SameFrequency(dobs.before.channel_1, bus.apu.channel_1)
    /\ bus.apu.channel_1.frequency_shadow <= 2047
    /\ GetChannelFrequency(bus.apu.channel_1) <= 2047

\* A sweep slot whose first result fits and is written back, and whose second
\* result disables the channel
C32_Witness ==
    /\ SweepSlotCalculation
    /\ SweepOf(dobs.before.channel_1.frequency_shadow, dobs.before.channel_1) <= 2047
    /\ bus.apu.channel_1.frequency_shadow # dobs.before.channel_1.frequency_shadow
    /\ dobs.before.channel_1.enabled /\ ~bus.apu.channel_1.enabled

---------------------------------------------------------------------------
(* Work RAM and high RAM.                                                  *)

\* The work RAM bank that a store to address goes through, -1 for high RAM
BankOf(address, index) ==
    IF address >= 49152 /\ address <= 53247 THEN 0
    ELSE IF address >= 53248 /\ address <= 57343 THEN index
    ELSE -1

---------------------------------------------------------------------------
(* The boot ROM overlay.                                                    *)

\* C36: once a store to 0xFF50 has disabled the boot ROM overlay it stays
\* disabled whatever is stored afterwards, and every load from 0x0000-0x00FF
\* or 0x0200-0x08FF is supplied by the cartridge.
C36_Claim ==
    dobs.disabled =>
        /\ ~bus.boot_rom_enabled
        /\ (dobs.last = "read" /\ (dobs.address <= 255
                                     \/ (dobs.address >= 512 /\ dobs.address <= 2303)))
               => dobs.source = "cartridge"
---------------------------------------------------------------------------
(* The LCD switched off, and the sprites of a line.                        *)

FirstTen(line) ==
    Take({i \in DOMAIN ppu.object_attributes :
             SpriteCoversLine(ppu, ppu.object_attributes[i], line)}, 10)

\* C30: a sprite that covers a line but is not among the first ten in OAM
\* order that do never shows in the back buffer on that line.
C30_Claim ==
    \A c \in DOMAIN ppu.back_buffer :
        \A i \in DOMAIN ppu.object_attributes :
            i \notin FirstTen(c[1]) => ppu.back_buffer[c] # ppu.object_attributes[i].color
---------------------------------------------------------------------------
(* Determinism, checked on SpecTwin.                                        *)

\* C27: two systems built from the same cartridge image and driven by the
\* same calls pass through identical states: the cartridge state of the one
\* is that of the other, and every load returns the same byte on both.
C27_Claim ==
    /\ cartridge = dobs.cartridge
    /\ dobs.value = dobs.twin_value
---------------------------------------------------------------------------
(* The latch of the MBC3 clock.                                             *)

---------------------------------------------------------------------------

\* C40: under every interleaving of append and next, the k-th value that next
\* returns is a left-channel sample when k is even and a right-channel sample
\* when k is odd, also across overflow drops and across underruns.  (The
\* zero value returned before anything was appended counts for either.)
C40_Claim ==
    (dobs.k >= 0 /\ dobs.returned # ZeroValue)
    => dobs.returned.channel = IF dobs.k % 2 = 0 THEN "left" ELSE "right"
===========================================================================
